---- MODULE Spec2Model ----
(***************************************************************************)
(* Access-control and public-write model of feedback-flow-genius.          *)
(*                                                                         *)
(* The program is a browser client over a Postgres store guarded by        *)
(* row-level-security policies.  The state is the content of the tables    *)
(* (profiles, feedback, subscribers); one action models one request that   *)
(* reaches the store (INSERT / SELECT / UPDATE / rpc) or one client        *)
(* handler that issues such a request.  `result` is the response of the    *)
(* last request together with the request itself.                          *)
(*                                                                         *)
(* Text values are kept as run-length encoded strings (a sequence of runs  *)
(* [c, n] = character c repeated n times) so that the length limits of    *)
(* the policies (200, 2000, 100, 20) keep their real values.               *)
(***************************************************************************)
EXTENDS Integers, Sequences, FiniteSets, TLC

VARIABLES profiles, feedback, subscribers, input, result,
          tabs, events, invoked,
          team_invitations, team_members, now, adding,
          tasks, feedback_responses,
          lists

\* the state of the browser tabs and of the usage log they count
clientVars == <<tabs, events, invoked>>

\* the state of the team tables, the clock and the running addTeamMember calls
teamVars == <<team_invitations, team_members, now, adding>>

\* the tasks and the responses to feedback
workVars == <<tasks, feedback_responses>>

\* the feedback list each FeedbackList component holds
viewVars == <<lists>>

vars == <<profiles, feedback, subscribers, input, result, clientVars, teamVars,
          workVars, viewVars>>

-----------------------------------------------------------------------------
(* Bounds of the model *)

MaxRows == 1

Users == {"u1", "u2"}

Branches == {"b1", "b2"}

Categories == {"c1"}

-----------------------------------------------------------------------------
(* SQL NULL, for identifiers and for text *)

NULL == "NULL"

NullText == <<[c |-> "NULL", n |-> 0]>>

\* a NULL in the integer column rating: it fails every comparison, as 0 does
NullRating == 0

\* auth.uid() of a request made with the anon key only
Anon == NULL

\* the browser tabs that can be open at once, and the addTeamMember calls
\* that can be running at once
Tabs == {"t1", "t2"}

Sessions == {"s1", "s2", "s3"}

Principals == Users \cup {Anon}

-----------------------------------------------------------------------------
(* Text: run-length encoded strings and the SQL / JS functions used on them *)

Rep(c, n) == <<[c |-> c, n |-> n]>>

\* a literal, one run per character
Lit(chars) == [i \in 1..Len(chars) |-> [c |-> chars[i], n |-> 1]]

EmptyText == << >>

RECURSIVE length(_)
length(s) == IF s = << >> THEN 0 ELSE Head(s).n + length(Tail(s))

RECURSIVE ltrim(_)
ltrim(s) ==
    IF s = << >> THEN << >>
    ELSE IF Head(s).c = " " THEN ltrim(Tail(s)) ELSE s

RECURSIVE rtrim(_)
rtrim(s) ==
    IF s = << >> THEN << >>
    ELSE IF s[Len(s)].c = " " THEN rtrim(SubSeq(s, 1, Len(s) - 1)) ELSE s

\* SQL trim(text): strips spaces (only spaces) from both ends
trim(s) == rtrim(ltrim(s))

RECURSIVE Expand(_)
Expand(s) ==
    IF s = << >> THEN << >>
    ELSE [i \in 1..Head(s).n |-> Head(s).c] \o Expand(Tail(s))

IsLetter(ch) == ch \in {"a", "b"}

IsDigit(ch) == ch \in {"1"}

\* [A-Za-z0-9._%+-]
InLocalClass(ch) == IsLetter(ch) \/ IsDigit(ch) \/ ch \in {".", "_", "%", "+", "-"}

\* [A-Za-z0-9.-]
InDomainClass(ch) == IsLetter(ch) \/ IsDigit(ch) \/ ch \in {".", "-"}

\* email ~ '^[A-Za-z0-9._%+-]+@[A-Za-z0-9.-]+\.[A-Za-z]{2,}$'
validate_email_format(email) ==
    LET e == Expand(email) IN
    \E i \in 1..Len(e) :
        /\ e[i] = "@"
        /\ i > 1
        /\ \A k \in 1..(i - 1) : InLocalClass(e[k])
        /\ \E j \in (i + 2)..Len(e) :
              /\ e[j] = "."
              /\ \A k \in (i + 1)..(j - 1) : InDomainClass(e[k])
              /\ Len(e) - j >= 2
              /\ \A k \in (j + 1)..Len(e) : IsLetter(e[k])

\* JavaScript `x || null` on a form value: null and '' are falsy
JsOrNull(v) == IF v = NullText \/ v = EmptyText THEN NullText ELSE v

\* JavaScript `!x` on a form value
JsNot(v) == v = NullText \/ v = EmptyText

-----------------------------------------------------------------------------
(* E-mail addresses of the accounts *)

SomeEmail == Rep("a", 1) \o Rep("@", 1) \o Rep("b", 1) \o Rep(".", 1) \o Rep("a", 2)

OtherEmail == Rep("b", 1) \o Rep("@", 1) \o Rep("b", 1) \o Rep(".", 1) \o Rep("a", 2)

\* an address no account has
ThirdEmail == Rep("c", 1) \o Rep("@", 1) \o Rep("b", 1) \o Rep(".", 1) \o Rep("a", 2)

\* auth.email(): the e-mail address in the caller's token
auth_email(uid) ==
    IF uid = "u1" THEN SomeEmail ELSE IF uid = "u2" THEN OtherEmail ELSE NullText

-----------------------------------------------------------------------------
(* Identity and role resolution *)

NoProfile == [exists |-> FALSE, id |-> NULL, role |-> NULL, branch_id |-> NULL]

Roles == {"admin", "manager", "staff", "user"}

\* profiles.id of the profile that belongs to auth user u (gen_random_uuid)
ProfileIdOf(u) == IF u = "u1" THEN "p1" ELSE "p2"

ProfileIds == {profiles[u].id : u \in {v \in Users : profiles[v].exists}}

get_user_role(uid) ==
    IF uid \in Users /\ profiles[uid].exists THEN profiles[uid].role ELSE NULL

get_user_branch(uid) ==
    IF uid \in Users /\ profiles[uid].exists THEN profiles[uid].branch_id ELSE NULL

\* SELECT id FROM profiles WHERE user_id = auth.uid()
OwnProfileIds(uid) ==
    IF uid \in Users /\ profiles[uid].exists THEN {profiles[uid].id} ELSE {}

\* SQL `a = b` used as a filter: unknown (a NULL operand) does not pass
SqlEq(a, b) == a # NULL /\ b # NULL /\ a = b

-----------------------------------------------------------------------------
(* The feedback table *)

Statuses == {"pending", "in_progress", "resolved", "closed"}

Priorities == {"low", "medium", "high", "urgent"}

\* column defaults of CREATE TABLE public.feedback
FeedbackDefaults ==
    [customer_name |-> NullText, customer_email |-> NullText,
     customer_phone |-> NullText, category_id |-> NULL, branch_id |-> NULL,
     rating |-> NullRating, subject |-> NullText, message |-> NullText,
     status |-> "pending", priority |-> "medium", is_anonymous |-> FALSE,
     assigned_to |-> NULL, resolved_at |-> NULL]

\* INSERT ... / UPDATE ... SET: the columns named by the request replace the
\* row's (or the defaults') values
ApplyPatch(row, patch) ==
    [col \in DOMAIN row |-> IF col \in DOMAIN patch THEN patch[col] ELSE row[col]]

\* a mutant of the rating CHECK with an off-by-one upper limit
FeedbackConstraints_Rating6(row) ==
    /\ row.rating >= 1 /\ row.rating <= 6
    /\ row.subject # NullText
    /\ row.message # NullText
    /\ row.status \in Statuses
    /\ row.priority \in Priorities
    /\ row.category_id = NULL \/ row.category_id \in Categories
    /\ row.branch_id = NULL \/ row.branch_id \in Branches
    /\ row.assigned_to = NULL \/ row.assigned_to \in ProfileIds

\* NOT NULL, CHECK and REFERENCES constraints of the feedback table
FeedbackConstraints(row) ==
    /\ row.rating >= 1 /\ row.rating <= 5
    /\ row.subject # NullText
    /\ row.message # NullText
    /\ row.status \in Statuses
    /\ row.priority \in Priorities
    /\ row.category_id = NULL \/ row.category_id \in Categories
    /\ row.branch_id = NULL \/ row.branch_id \in Branches
    /\ row.assigned_to = NULL \/ row.assigned_to \in ProfileIds

\* policy "Public can create validated feedback" (FOR INSERT WITH CHECK)
PublicCanCreateValidatedFeedback(row) ==
    /\ row.subject # NullText /\ length(trim(row.subject)) > 0
    /\ row.message # NullText /\ length(trim(row.message)) > 0
    /\ row.rating >= 1 /\ row.rating <= 5
    /\ length(row.message) <= 2000
    /\ length(row.subject) <= 200
    /\ \/ row.customer_name = NullText
       \/ /\ length(trim(row.customer_name)) > 0
          /\ length(trim(row.customer_name)) <= 100
    /\ \/ row.customer_email = NullText
       \/ /\ length(trim(row.customer_email)) > 0
          /\ validate_email_format(row.customer_email)
    /\ \/ row.customer_phone = NullText
       \/ /\ length(trim(row.customer_phone)) > 0
          /\ length(trim(row.customer_phone)) <= 20

-----------------------------------------------------------------------------
(* Row policies of the feedback table *)

\* policy "Admins can view all feedback with customer info" (FOR SELECT)
AdminsCanViewAllFeedback(uid, row) == get_user_role(uid) = "admin"

\* policy "Managers can view branch feedback with customer info" (FOR SELECT)
ManagersCanViewBranchFeedback(uid, row) ==
    /\ get_user_role(uid) = "manager"
    /\ SqlEq(row.branch_id, get_user_branch(uid))

\* policy "Assigned staff can view their feedback with customer info" (FOR SELECT)
AssignedStaffCanViewTheirFeedback(uid, row) ==
    row.assigned_to \in OwnProfileIds(uid)

\* policy "Staff can view feedback content without personal info" /
\* "Staff can view limited feedback info" (FOR SELECT)
StaffCanViewFeedbackContent(uid, row) == get_user_role(uid) = "staff"

\* mutant: the earlier policy "Users can view all feedback" left in place
FeedbackSelectPolicies_AnyUser(uid, row) ==
    \/ StaffCanViewFeedbackContent(uid, row)
    \/ ManagersCanViewBranchFeedback(uid, row)
    \/ AdminsCanViewAllFeedback(uid, row)
    \/ AssignedStaffCanViewTheirFeedback(uid, row)
    \/ uid # NULL

\* the permissive SELECT policies of feedback are OR-ed
FeedbackSelectPolicies(uid, row) ==
    \/ StaffCanViewFeedbackContent(uid, row)
    \/ ManagersCanViewBranchFeedback(uid, row)
    \/ AdminsCanViewAllFeedback(uid, row)
    \/ AssignedStaffCanViewTheirFeedback(uid, row)

\* mutant: staff added to the roles that may update any row
AssignedStaffCanUpdateTheirFeedback_Staff(uid, row) ==
    \/ row.assigned_to \in OwnProfileIds(uid)
    \/ get_user_role(uid) \in {"admin", "manager", "staff"}

\* policy "Assigned staff can update their feedback" (FOR UPDATE USING; with
\* no WITH CHECK clause the same expression is checked on the new row)
AssignedStaffCanUpdateTheirFeedback(uid, row) ==
    \/ row.assigned_to \in OwnProfileIds(uid)
    \/ get_user_role(uid) \in {"admin", "manager"}

Indexes == 1..Len(feedback)

\* mutant: only the UPDATE policy decides which rows an UPDATE acts on
UpdateTargets_NoSelect(uid) ==
    {i \in Indexes : AssignedStaffCanUpdateTheirFeedback(uid, feedback[i])}

\* the rows an UPDATE ... WHERE id = ... of this principal acts on: an UPDATE
\* that reads columns needs the row to pass the SELECT policies as well
UpdateTargets(uid) ==
    {i \in Indexes : /\ FeedbackSelectPolicies(uid, feedback[i])
                     /\ AssignedStaffCanUpdateTheirFeedback(uid, feedback[i])}

\* the new row of an UPDATE must pass the UPDATE check, the SELECT policies
\* and the table constraints, else the statement fails
UpdateAccepts(uid, new) ==
    /\ AssignedStaffCanUpdateTheirFeedback(uid, new)
    /\ FeedbackSelectPolicies(uid, new)
    /\ FeedbackConstraints(new)

-----------------------------------------------------------------------------
(* Read paths of feedback *)

\* supabase.from('feedback').select('*'): the rows the SELECT policies pass,
\* every column as stored
SelectFeedback(uid) ==
    {feedback[i] : i \in {j \in Indexes : FeedbackSelectPolicies(uid, feedback[j])}}

FetchLimit == 10

\* .order('created_at', { ascending: false }).limit(10)
NewestRows(rows) ==
    {r \in rows : Cardinality({q \in rows : q.id > r.id}) < FetchLimit}

\* masked customer_name of the staff projections
MaskedName(row) == IF row.is_anonymous = TRUE THEN NullText ELSE Lit(<<"C", "u", "s", "t", "o", "m", "e", "r">>)

\* mutant: the phone column returned unmasked
StaffProjection_PhoneLeak(uid, row) ==
    LET mine == row.assigned_to \in OwnProfileIds(uid) IN
    [row EXCEPT
        !.customer_name = IF mine THEN row.customer_name ELSE MaskedName(row),
        !.customer_email = IF mine THEN row.customer_email ELSE NullText]

\* the staff branch of get_feedback_for_staff: one row of the result
StaffProjection(uid, row) ==
    LET mine == row.assigned_to \in OwnProfileIds(uid) IN
    [row EXCEPT
        !.customer_name = IF mine THEN row.customer_name ELSE MaskedName(row),
        !.customer_email = IF mine THEN row.customer_email ELSE NullText,
        !.customer_phone = IF mine THEN row.customer_phone ELSE NullText]

AllRows == {feedback[i] : i \in Indexes}

\* rpc get_feedback_for_staff() (SECURITY DEFINER: reads the table itself)
get_feedback_for_staff(uid) ==
    LET user_role == get_user_role(uid) IN
    IF user_role = "admin" THEN AllRows
    ELSE IF user_role = "manager"
         THEN {r \in AllRows : SqlEq(r.branch_id, get_user_branch(uid))}
    ELSE IF user_role = "staff"
         THEN {StaffProjection(uid, r) : r \in AllRows}
    ELSE {}

\* view feedback_staff_view with its policy "Staff can view masked feedback"
feedback_staff_view(uid) ==
    IF get_user_role(uid) = "staff"
    THEN {[r EXCEPT !.customer_name = MaskedName(r),
                    !.customer_email = NullText,
                    !.customer_phone = NullText] : r \in AllRows}
    ELSE {}

-----------------------------------------------------------------------------
(* Responses *)

NoRequest == [none |-> TRUE]

Response(op, uid, ok, count, request, rows) ==
    [op |-> op, caller |-> uid, ok |-> ok, count |-> count,
     req |-> request, rows |-> rows]

NoResult == Response("none", Anon, TRUE, 0, NoRequest, {})

-----------------------------------------------------------------------------
(* Requests on feedback *)

\* INSERT INTO feedback without RETURNING (supabase insert with no select):
\* only the INSERT policy and the table constraints decide
InsertFeedback(uid, request) ==
    LET row == ApplyPatch([id |-> Len(feedback) + 1] @@ FeedbackDefaults, request)
        ok == PublicCanCreateValidatedFeedback(row) /\ FeedbackConstraints(row)
    IN  /\ Len(feedback) < MaxRows
        /\ feedback' = IF ok THEN Append(feedback, row) ELSE feedback
        /\ result' = Response("insert", uid, ok, IF ok THEN 1 ELSE 0, request, {})
        /\ UNCHANGED <<clientVars, teamVars, workVars, viewVars, profiles, subscribers, input>>

\* UPDATE feedback SET <patch> WHERE id = <id>
UpdateFeedback(uid, id, patch) ==
    LET hit == id \in UpdateTargets(uid)
        new == ApplyPatch(feedback[id], patch)
        ok  == hit => UpdateAccepts(uid, new)
    IN  /\ id \in Indexes
        /\ feedback' = IF hit /\ ok THEN [feedback EXCEPT ![id] = new] ELSE feedback
        /\ result' = Response("update", uid, ok, IF hit /\ ok THEN 1 ELSE 0,
                              [id |-> id, patch |-> patch], {})
        /\ UNCHANGED <<clientVars, teamVars, workVars, profiles, subscribers, input>>

\* FeedbackList.fetchFeedback
fetchFeedback(uid) ==
    /\ result' = Response("select", uid, TRUE, 0, NoRequest,
                          NewestRows(SelectFeedback(uid)))
    /\ UNCHANGED <<clientVars, teamVars, workVars, viewVars, profiles, feedback, subscribers, input>>

CallGetFeedbackForStaff(uid) ==
    /\ result' = Response("rpc", uid, TRUE, 0, NoRequest, get_feedback_for_staff(uid))
    /\ UNCHANGED <<clientVars, teamVars, workVars, viewVars, profiles, feedback, subscribers, input>>

SelectStaffView(uid) ==
    /\ result' = Response("view", uid, TRUE, 0, NoRequest, feedback_staff_view(uid))
    /\ UNCHANGED <<clientVars, teamVars, workVars, viewVars, profiles, feedback, subscribers, input>>

-----------------------------------------------------------------------------
(* Teams, team members and team invitations *)

Teams == {"T1", "T2"}

\* the teams table: both teams are managed by the seeded admin's profile
teams == [t \in Teams |-> [manager_id |-> "p2", branch_id |-> "b1"]]

\* CHECK team_invitations_role_check
InvitationRoles == {"member", "lead", "admin"}

\* CHECK team_invitations_status_check
InvitationStatuses == {"pending", "accepted", "expired"}

\* expires_at DEFAULT (now() + interval '7 days'), in days
InvitationLifetime == 7

\* get_user_profile_id(user_uuid)
get_user_profile_id(uid) ==
    IF uid \in Users /\ profiles[uid].exists THEN profiles[uid].id ELSE NULL

\* is_team_manager(user_uuid, team_uuid)
is_team_manager(uid, team) ==
    /\ team \in Teams
    /\ SqlEq(teams[team].manager_id, get_user_profile_id(uid))

\* team_members without UNIQUE(team_id, user_id)
IsMember_NoConstraint(members, team, pid) == FALSE

\* UNIQUE(team_id, user_id) of team_members: a row of that pair exists
IsMember(members, team, pid) ==
    \E m \in members : m.team_id = team /\ m.user_id = pid

\* INSERT INTO team_members ... ON CONFLICT (team_id, user_id) DO NOTHING
InsertMemberOrNothing(members, team, pid, role) ==
    IF IsMember(members, team, pid) THEN members
    ELSE members \cup {[team_id |-> team, user_id |-> pid, role |-> role]}

\* the selection of the FOR loop without its test of expires_at
SelectedInvitation_NoExpiry(row, email) ==
    /\ row.email = email
    /\ row.status = "pending"

\* the invitations the FOR loop of process_pending_invitations selects
SelectedInvitation(row, email) ==
    /\ row.email = email
    /\ row.status = "pending"
    /\ row.expires_at > now

\* the loop of process_pending_invitations from invitation i on: the
\* team_members table after it
RECURSIVE ProcessFrom(_, _, _, _)
ProcessFrom(i, members, pid, email) ==
    IF i > Len(team_invitations) THEN members
    ELSE LET row == team_invitations[i] IN
         IF SelectedInvitation(row, email)
         THEN ProcessFrom(i + 1, InsertMemberOrNothing(members, row.team_id, pid, row.role),
                          pid, email)
         ELSE ProcessFrom(i + 1, members, pid, email)

\* trigger on_auth_user_process_invitations: process_pending_invitations()
\* for the new account NEW = (u, auth_email(u)) whose profile is pid
process_pending_invitations(u, pid) ==
    /\ team_members' = ProcessFrom(1, team_members, pid, auth_email(u))
    /\ team_invitations' =
          [i \in DOMAIN team_invitations |->
              IF SelectedInvitation(team_invitations[i], auth_email(u))
              THEN [team_invitations[i] EXCEPT !.status = "accepted"]
              ELSE team_invitations[i]]

-----------------------------------------------------------------------------
(* Profiles *)

\* 'Main Branch', the first active branch by created_at
DefaultBranch == "b1"

\* INSERT INTO auth.users and its AFTER INSERT triggers, in the order of
\* their names: on_auth_user_created (handle_new_user), then
\* on_auth_user_process_invitations (process_pending_invitations)
SignUp(u) ==
    /\ ~profiles[u].exists
    /\ profiles' = [profiles EXCEPT ![u] =
                       [exists |-> TRUE, id |-> ProfileIdOf(u), role |-> "user",
                        branch_id |-> DefaultBranch]]
    /\ process_pending_invitations(u, ProfileIdOf(u))
    /\ result' = Response("signup", u, TRUE, 1, NoRequest, {})
    /\ UNCHANGED <<clientVars, workVars, viewVars, now, adding, feedback, subscribers, input>>

\* policies "Users can update their own profile" and "Admins can manage all
\* profiles" (USING, and the implied check of the new row)
ProfileUpdatePolicies(uid, target) ==
    \/ uid # NULL /\ uid = target
    \/ get_user_role(uid) = "admin"

\* policies "Users can view their own profile", "Admins and managers can view
\* all profiles", "Admins can manage all profiles"
ProfileSelectPolicies(uid, target) ==
    \/ uid # NULL /\ uid = target
    \/ get_user_role(uid) \in {"admin", "manager"}

ProfileConstraints(row) ==
    /\ row.role \in Roles
    /\ row.branch_id = NULL \/ row.branch_id \in Branches

\* UPDATE profiles SET <patch> WHERE user_id = <target>
UpdateProfile(uid, target, patch) ==
    LET hit == /\ profiles[target].exists
               /\ ProfileSelectPolicies(uid, target)
               /\ ProfileUpdatePolicies(uid, target)
        new == ApplyPatch(profiles[target], patch)
        ok  == hit => ProfileConstraints(new)
    IN  /\ profiles' = IF hit /\ ok THEN [profiles EXCEPT ![target] = new]
                                    ELSE profiles
        /\ result' = Response("profile", uid, ok, IF hit /\ ok THEN 1 ELSE 0,
                              [target |-> target, patch |-> patch], {})
        /\ UNCHANGED <<clientVars, teamVars, workVars, viewVars, feedback, subscribers, input>>

-----------------------------------------------------------------------------
(* The public feedback pages *)

GeneralFeedback ==
    Lit(<<"G", "e", "n", "e", "r", "a", "l", " ",
          "F", "e", "e", "d", "b", "a", "c", "k">>)

\* the object handleSubmit builds from the form (pages/Feedback.tsx and
\* pages/Index.tsx, which has no subject field and no category)
feedbackData(page, form) ==
    [subject |-> IF page = "Index"
                 THEN (IF JsNot(form.subject) THEN GeneralFeedback ELSE form.subject)
                 ELSE form.subject,
     message |-> form.message,
     rating |-> form.rating,
     category_id |-> IF page = "Index" THEN NULL ELSE form.selectedCategory,
     branch_id |-> IF form.branchId = "" THEN NULL ELSE form.branchId,
     customer_name |-> JsOrNull(form.name),
     customer_email |-> JsOrNull(form.email),
     customer_phone |-> JsOrNull(form.phone),
     status |-> "pending",
     priority |-> "medium",
     is_anonymous |-> JsNot(form.name)]

\* handleSubmit: no rating selected -> toast "Rating required", nothing sent;
\* else insert feedbackData
handleSubmit(uid, page, form) ==
    IF form.rating = 0
    THEN /\ result' = Response("submit", uid, FALSE, 0, feedbackData(page, form), {})
         /\ UNCHANGED <<clientVars, teamVars, workVars, viewVars, profiles, feedback, subscribers, input>>
    ELSE LET request == feedbackData(page, form)
             row == ApplyPatch([id |-> Len(feedback) + 1] @@ FeedbackDefaults, request)
             ok == PublicCanCreateValidatedFeedback(row) /\ FeedbackConstraints(row)
         IN  /\ Len(feedback) < MaxRows
             /\ feedback' = IF ok THEN Append(feedback, row) ELSE feedback
             /\ result' = Response("submit", uid, ok, IF ok THEN 1 ELSE 0, request, {})
             /\ UNCHANGED <<clientVars, teamVars, workVars, viewVars, profiles, subscribers, input>>

-----------------------------------------------------------------------------
(* Specification of the read and update paths of feedback *)

\* a tab with nothing loaded: the useState defaults of SubscriptionProvider,
\* IntelligentAnalytics and Dashboard
ClosedTab ==
    [open |-> FALSE, user |-> NULL,
     subscribed |-> FALSE, subscriptionTier |-> NULL,
     mounted |-> FALSE, counting |-> FALSE,
     usageLimit |-> 0, usageCount |-> 0,
     pc |-> "idle", toast |-> "none",
     showTranslate |-> FALSE, showPricingModal |-> FALSE,
     selectedLanguage |-> "en", translating |-> NULL,
     fetched |-> FALSE, exported |-> FALSE,
     loading |-> TRUE, calls |-> {}, started |-> 0]

\* no tab is open, nothing is logged, nothing was analysed
ClientIdle ==
    /\ tabs = [t \in Tabs |-> ClosedTab]
    /\ events = << >>
    /\ invoked = [u \in Users |-> 0]

\* an addTeamMember call that is not running
IdleSession ==
    [pc |-> "idle", uid |-> NULL, team |-> NULL, email |-> NullText,
     role |-> NULL, existingProfile |-> NULL, toast |-> "none",
     mail |-> "none", dialogOpen |-> TRUE]

\* an addTeamMember call that has ended with the given toast
Finished(toast) == [IdleSession EXCEPT !.pc = "done", !.toast = toast]

\* a FeedbackList that is not rendered: useState<Feedback[]>([])
NoList == [user |-> NULL, mounted |-> FALSE, feedback |-> {}]

\* no invitation, no member, no addTeamMember call, day 0, no list rendered
TeamIdle ==
    /\ lists = [s \in Sessions |-> NoList]
    /\ tasks = << >>
    /\ feedback_responses = << >>
    /\ team_invitations = << >>
    /\ team_members = {}
    /\ now = 0
    /\ adding = [s \in Sessions |-> IdleSession]

NoInput == [kind |-> "none"]

\* no row of subscribers for an account
NoSubscriber ==
    [exists |-> FALSE, user_id |-> NULL, email |-> NullText, subscribed |-> FALSE,
     subscription_tier |-> NULL, subscription_end |-> NULL, trial_end |-> NULL]

\* the account seeded as admin, in the default branch
SeededProfiles ==
    [u \in Users |->
        IF u = "u2"
        THEN [exists |-> TRUE, id |-> ProfileIdOf(u), role |-> "admin",
              branch_id |-> DefaultBranch]
        ELSE NoProfile]

SomeSubject == Rep("a", 7)

SomeMessage == Rep("a", 30)

SomeName == Rep("a", 5)

SomePhone == Rep("1", 9)

\* what a customer may leave about themselves: name, is_anonymous, email, phone
CustomerSpecimens ==
    {[customer_name |-> NullText, is_anonymous |-> TRUE,
      customer_email |-> NullText, customer_phone |-> NullText],
     [customer_name |-> NullText, is_anonymous |-> TRUE,
      customer_email |-> SomeEmail, customer_phone |-> SomePhone],
     [customer_name |-> SomeName, is_anonymous |-> FALSE,
      customer_email |-> SomeEmail, customer_phone |-> SomePhone],
     [customer_name |-> SomeName, is_anonymous |-> FALSE,
      customer_email |-> SomeEmail, customer_phone |-> NullText]}

\* public submissions that differ in what the access rules look at
AccessRequests ==
    {[subject |-> SomeSubject, message |-> SomeMessage, rating |-> 3,
      branch_id |-> b] @@ c :
        b \in Branches \cup {NULL}, c \in CustomerSpecimens}

AccessPatches == {[assigned_to |-> p] : p \in {NULL, "p1"}}

ProfilePatches ==
    {[role |-> r] : r \in Roles} \cup {[branch_id |-> b] : b \in Branches \cup {NULL}}

\* the accounts whose profile the model changes; the seeded admin stays admin
ManagedUsers == {"u1"}

InitAccess ==
    /\ profiles = SeededProfiles
    /\ feedback = << >>
    /\ subscribers = [u \in Users |-> NoSubscriber]
    /\ input = NoInput
    /\ result = NoResult
    /\ ClientIdle
    /\ TeamIdle

DoSignUp == \E u \in Users : SignUp(u)

DoUpdateProfile ==
    \E uid \in Users, target \in ManagedUsers, patch \in ProfilePatches :
        UpdateProfile(uid, target, patch)

PostFeedback == \E request \in AccessRequests : InsertFeedback(Anon, request)

PatchFeedback ==
    \E uid \in Principals, id \in Indexes, patch \in AccessPatches :
        UpdateFeedback(uid, id, patch) /\ UNCHANGED lists

DoFetchFeedback == \E uid \in Principals : fetchFeedback(uid)

DoGetFeedbackForStaff == \E uid \in Principals : CallGetFeedbackForStaff(uid)

DoSelectStaffView == \E uid \in Principals : SelectStaffView(uid)

NextAccess ==
    \/ DoSignUp
    \/ DoUpdateProfile
    \/ PostFeedback
    \/ PatchFeedback
    \/ DoFetchFeedback
    \/ DoGetFeedbackForStaff
    \/ DoSelectStaffView

SpecAccess == InitAccess /\ [][NextAccess]_vars

-----------------------------------------------------------------------------
(* Properties of the read and update paths *)

ReadOps == {"select", "rpc", "view"}

\* the profiles that are entitled to a row's customer data: an admin, a
\* manager of the row's branch, the profile the row is assigned to
Entitled(uid, row) ==
    \/ get_user_role(uid) = "admin"
    \/ /\ get_user_role(uid) = "manager"
       /\ row.branch_id # NULL
       /\ row.branch_id = get_user_branch(uid)
    \/ row.assigned_to \in OwnProfileIds(uid)

\* C1: every read path returns customer_email and customer_phone as null
\* unless the caller is an admin, a manager of the row's branch or the
\* profile the row is assigned to
C1_NoCustomerContactUnlessEntitled ==
    result.op \in ReadOps =>
        \A r \in result.rows :
            (r.customer_email # NullText \/ r.customer_phone # NullText)
                => Entitled(result.caller, feedback[r.id])

Customer == Lit(<<"C", "u", "s", "t", "o", "m", "e", "r">>)

\* C2: get_feedback_for_staff returns the stored customer_name, customer_email
\* and customer_phone of a row to an admin, a manager of the row's branch and
\* the row's assignee, and to every other caller customer_email = null,
\* customer_phone = null and customer_name = 'Customer', or null when the row
\* is anonymous
C2_StaffRpcProjection ==
    result.op = "rpc" =>
        \A r \in result.rows :
            LET stored == feedback[r.id] IN
            IF Entitled(result.caller, stored)
            THEN /\ r.customer_name = stored.customer_name
                 /\ r.customer_email = stored.customer_email
                 /\ r.customer_phone = stored.customer_phone
            ELSE /\ r.customer_email = NullText
                 /\ r.customer_phone = NullText
                 /\ r.customer_name =
                        IF stored.is_anonymous THEN NullText ELSE Customer

\* a staff caller got a named row with contact data that is not assigned to
\* it, masked, and a row assigned to it, in full
C2_Witness ==
    /\ result.op = "rpc"
    /\ get_user_role(result.caller) = "staff"
    /\ \E r \in result.rows :
          /\ ~Entitled(result.caller, feedback[r.id])
          /\ feedback[r.id].customer_phone # NullText
          /\ feedback[r.id].customer_name # NullText
          /\ r.customer_name = Customer

OtherBranch(uid, row) ==
    /\ get_user_branch(uid) # NULL
    /\ row.branch_id # NULL
    /\ row.branch_id # get_user_branch(uid)

ManagerMay(uid, row) ==
    \/ row.branch_id # NULL /\ row.branch_id = get_user_branch(uid)
    \/ row.assigned_to \in OwnProfileIds(uid)

\* C4: a manager reads or updates a feedback row only if the row's branch_id
\* is the manager's own branch_id or the row is assigned to that manager
C4_ManagerOwnBranchOrAssigned ==
    [][get_user_role(result'.caller) = "manager" =>
          /\ result'.op \in ReadOps =>
                \A r \in result'.rows : ManagerMay(result'.caller, feedback[r.id])
          /\ (result'.op = "update" /\ ~ManagerMay(result'.caller, feedback[result'.req.id]))
                => (result'.count = 0 /\ feedback' = feedback)]_vars

\* a manager of one branch tried to update an unassigned row of the other
\* branch and nothing changed, and a manager updated a row of its own branch
C4_Witness ==
    /\ result.op = "update"
    /\ get_user_role(result.caller) = "manager"
    /\ result.count = 0
    /\ OtherBranch(result.caller, feedback[result.req.id])
    /\ feedback[result.req.id].assigned_to = NULL

Unprivileged(uid) == get_user_role(uid) \notin {"admin", "manager", "staff"}

\* C6: a principal without a profile, or with role 'user', is denied read and
\* update on every feedback row that is not assigned to it
C6_UnprivilegedDenied ==
    [][Unprivileged(result'.caller) =>
          /\ result'.op \in ReadOps =>
                \A r \in result'.rows :
                    feedback[r.id].assigned_to \in OwnProfileIds(result'.caller)
          /\ (result'.op = "update"
                /\ feedback[result'.req.id].assigned_to \notin OwnProfileIds(result'.caller))
                => (result'.count = 0 /\ feedback' = feedback)]_vars

\* an account with role 'user' fetched the list while a row existed and got
\* nothing
C6_Witness ==
    /\ result.op = "select"
    /\ get_user_role(result.caller) = "user"
    /\ Len(feedback) > 0
    /\ result.rows = {}

-----------------------------------------------------------------------------
(* Specification of the public write path: one submission, chosen at the    *)
(* start, is sent (through a page's handleSubmit or directly to the REST    *)
(* endpoint) and an admin edits the stored rows                             *)

Blank == Rep(" ", 3)

Letters(n) == Rep("a", n)

Digits(n) == Rep("1", n)

\* 'a@b.a': a one-letter top-level domain
ShortTldEmail == Rep("a", 1) \o Rep("@", 1) \o Rep("b", 1) \o Rep(".", 1) \o Rep("a", 1)

\* requests that vary the required columns
TextRequests ==
    {[subject |-> s, message |-> m, rating |-> r] :
        s \in {NullText, EmptyText, Blank, Letters(200), Letters(201)},
        m \in {Blank, Letters(2000), Letters(2001)},
        r \in {0, 1, 5, 6}}

\* requests that vary the optional customer columns
CustomerRequests ==
    {[subject |-> SomeSubject, message |-> SomeMessage, rating |-> 4,
      customer_name |-> n, customer_email |-> e, customer_phone |-> ph] :
        n \in {NullText, Blank, Letters(100), Letters(100) \o Rep(" ", 1), Letters(101)},
        e \in {NullText, EmptyText, SomeEmail, ShortTldEmail, SomeEmail \o Rep(" ", 1)},
        ph \in {NullText, Digits(20), Digits(20) \o Rep(" ", 1), Digits(21)}}

MetaSpecimens ==
    {[is_anonymous |-> TRUE], [is_anonymous |-> FALSE],
     [status |-> "resolved", assigned_to |-> "p2"], [status |-> "closed"],
     [status |-> "open"], [priority |-> "urgent"], [assigned_to |-> "p1"],
     [category_id |-> "c1"]}

\* requests that vary the columns the pages fill in themselves
MetaRequests ==
    {[subject |-> SomeSubject, message |-> SomeMessage, rating |-> r,
      customer_name |-> n] @@ meta :
        r \in {1, 5}, n \in {NullText, SomeName}, meta \in MetaSpecimens}

\* what a visitor can enter on pages/Feedback.tsx
FeedbackForms ==
    {[subject |-> s, message |-> SomeMessage, name |-> n, email |-> e,
      phone |-> EmptyText, rating |-> r, selectedCategory |-> c, branchId |-> ""] :
        s \in {SomeSubject, Blank}, n \in {EmptyText, Blank, SomeName},
        e \in {EmptyText, SomeEmail}, r \in {0, 1, 5}, c \in {"", "c1"}}

\* what a visitor can enter on pages/Index.tsx: a rating and a message
IndexForms ==
    {[subject |-> NullText, message |-> m, name |-> NullText, email |-> NullText,
      phone |-> NullText, rating |-> r, selectedCategory |-> "", branchId |-> b] :
        m \in {EmptyText, SomeMessage, Letters(2001)}, r \in {0, 1, 5},
        b \in {"", "b1"}}

WriteInputs ==
    {[kind |-> "direct", req |-> request] :
        request \in TextRequests \cup CustomerRequests \cup MetaRequests}
    \cup {[kind |-> "form", page |-> "Feedback", form |-> f] : f \in FeedbackForms}
    \cup {[kind |-> "form", page |-> "Index", form |-> f] : f \in IndexForms}

WritePatches == {[rating |-> r] : r \in {0, 2, 6}}

InitWrite ==
    /\ profiles = SeededProfiles
    /\ feedback = << >>
    /\ subscribers = [u \in Users |-> NoSubscriber]
    /\ input \in WriteInputs
    /\ result = NoResult
    /\ ClientIdle
    /\ TeamIdle

SubmitForm ==
    /\ input.kind = "form"
    /\ handleSubmit(Anon, input.page, input.form)

PostRequest ==
    /\ input.kind = "direct"
    /\ InsertFeedback(Anon, input.req)

EditFeedback ==
    \E id \in Indexes, patch \in WritePatches : UpdateFeedback("u2", id, patch) /\ UNCHANGED lists

NextWrite ==
    \/ SubmitForm
    \/ PostRequest
    \/ EditFeedback

SpecWrite == InitWrite /\ [][NextWrite]_vars

-----------------------------------------------------------------------------
(* Properties of the public write path *)

InsertOps == {"insert", "submit"}

Col(request, col, default) == IF col \in DOMAIN request THEN request[col] ELSE default

\* a request whose columns other than rating are unobjectionable
CleanRequest(request) ==
    /\ request.subject \in {SomeSubject, Letters(200), GeneralFeedback}
    /\ request.message \in {SomeMessage, Letters(2000)}
    /\ Col(request, "customer_name", NullText) \in {NullText, SomeName, Letters(100)}
    /\ Col(request, "customer_email", NullText) \in {NullText, SomeEmail}
    /\ Col(request, "customer_phone", NullText) \in {NullText, SomePhone, Digits(20)}
    /\ Col(request, "category_id", NULL) \in {NULL} \cup Categories
    /\ Col(request, "branch_id", NULL) \in {NULL} \cup Branches
    /\ Col(request, "status", "pending") \in Statuses
    /\ Col(request, "priority", "medium") \in Priorities
    /\ Col(request, "assigned_to", NULL) \in {NULL} \cup ProfileIds

\* C7: a submission with a rating outside 1..5 is rejected and stores
\* nothing, a submission with rating 1 or 5 is accepted and stored, and every
\* stored row has its rating in 1..5 after any insert and any update
C7_RatingInRange ==
    [][/\ \A i \in 1..Len(feedback') : feedback'[i].rating \in 1..5
       /\ (result'.op \in InsertOps /\ result'.req.rating \notin 1..5)
            => (~result'.ok /\ feedback' = feedback)
       /\ (result'.op \in InsertOps /\ result'.req.rating \in {1, 5}
              /\ CleanRequest(result'.req))
            => /\ result'.ok
               /\ Len(feedback') = Len(feedback) + 1
               /\ feedback'[Len(feedback')].rating = result'.req.rating]_vars

\* a request with rating 6 and nothing else wrong has been refused
C7_Witness ==
    /\ result.op = "insert"
    /\ result.req.rating = 6
    /\ result.req.subject = Letters(200)
    /\ result.req.message = Letters(2000)
    /\ ~result.ok
    /\ feedback = << >>

\* C8: every stored feedback row has is_anonymous = true exactly when its
\* customer_name is null
C8_AnonymousIffNoName ==
    \A i \in Indexes :
        feedback[i].is_anonymous = (feedback[i].customer_name = NullText)

\* what the write contract asks of a request
DeclaredValid(request) ==
    LET subject == Col(request, "subject", NullText)
        message == Col(request, "message", NullText)
        name == Col(request, "customer_name", NullText)
        email == Col(request, "customer_email", NullText)
        phone == Col(request, "customer_phone", NullText)
    IN  /\ subject # NullText /\ length(subject) >= 1 /\ length(subject) <= 200
        /\ message # NullText /\ length(message) >= 1 /\ length(message) <= 2000
        /\ email = NullText \/ validate_email_format(email)
        /\ name = NullText \/ length(name) <= 100
        /\ phone = NullText \/ length(phone) <= 20

\* C9: an insert is accepted only if subject is non-empty and at most 200
\* characters, message non-empty and at most 2000, customer_email matches the
\* email pattern, customer_name is at most 100 characters and customer_phone
\* at most 20; any other insert is rejected and leaves the table unchanged
C9_AcceptedOnlyIfValid ==
    [][(result'.op \in InsertOps /\ ~DeclaredValid(result'.req))
          => (~result'.ok /\ feedback' = feedback)]_vars

\* C10: a row created through the public insert path is stored with status
\* 'pending' and assigned_to null, and with priority 'medium' when the
\* request named no priority
C10_StoredPendingUnassigned ==
    [][(result'.op \in InsertOps /\ result'.ok /\ result'.caller = Anon)
          => LET row == feedback'[Len(feedback')] IN
             /\ row.status = "pending"
             /\ row.assigned_to = NULL
             /\ "priority" \notin DOMAIN result'.req => row.priority = "medium"]_vars

-----------------------------------------------------------------------------
(* The subscribers table *)

\* policy "users_can_insert_own_subscription" (FOR INSERT WITH CHECK)
users_can_insert_own_subscription(uid, row) ==
    /\ uid # NULL
    /\ \/ SqlEq(row.user_id, uid) /\ row.email # NullText /\ row.email = auth_email(uid)
       \/ uid = NULL /\ row.user_id # NULL

\* policy "users_can_update_own_subscription" (FOR UPDATE USING, and the
\* implied check of the new row)
users_can_update_own_subscription(uid, row) ==
    \/ SqlEq(row.user_id, uid) /\ row.email # NullText /\ row.email = auth_email(uid)
    \/ uid = NULL

\* policy "users_can_select_own_subscription" (FOR SELECT)
users_can_select_own_subscription(uid, row) ==
    \/ SqlEq(row.user_id, uid)
    \/ row.email # NullText /\ auth_email(uid) # NullText /\ row.email = auth_email(uid)

\* trigger validate_subscriber_match: TRUE when NEW is let through
validate_subscriber_user_match(uid, new) ==
    IF uid = NULL THEN TRUE
    ELSE /\ ~(new.user_id # NULL /\ new.user_id # uid)
         /\ ~(new.email # NullText /\ new.email # auth_email(uid))

\* NOT NULL email, CHECK valid_email_format, unique index idx_subscribers_user_id
SubscriberConstraints(row) ==
    /\ row.email # NullText
    /\ validate_email_format(row.email)
    /\ row.user_id \in Users

\* INSERT INTO subscribers by a client holding the caller's token
InsertSubscriber(uid, request) ==
    LET row == ApplyPatch([NoSubscriber EXCEPT !.exists = TRUE], request)
        ok == /\ validate_subscriber_user_match(uid, row)
              /\ users_can_insert_own_subscription(uid, row)
              /\ SubscriberConstraints(row)
              /\ ~subscribers[row.user_id].exists
    IN  /\ subscribers' = IF ok THEN [subscribers EXCEPT ![row.user_id] = row]
                                ELSE subscribers
        /\ result' = Response("sub_insert", uid, ok, IF ok THEN 1 ELSE 0, request, {})
        /\ UNCHANGED <<clientVars, teamVars, workVars, viewVars, profiles, feedback, input>>

\* UPDATE subscribers SET <patch> WHERE user_id = <target> by a client
UpdateSubscriber(uid, target, patch) ==
    LET old == subscribers[target]
        hit == /\ old.exists
               /\ users_can_select_own_subscription(uid, old)
               /\ users_can_update_own_subscription(uid, old)
        new == ApplyPatch(old, patch)
        ok  == hit => /\ validate_subscriber_user_match(uid, new)
                      /\ users_can_update_own_subscription(uid, new)
                      /\ users_can_select_own_subscription(uid, new)
                      /\ SubscriberConstraints(new)
                      /\ new.user_id = target
    IN  /\ subscribers' = IF hit /\ ok THEN [subscribers EXCEPT ![target] = new]
                                       ELSE subscribers
        /\ result' = Response("sub_update", uid, ok, IF hit /\ ok THEN 1 ELSE 0,
                              [target |-> target, patch |-> patch], {})
        /\ UNCHANGED <<clientVars, teamVars, workVars, viewVars, profiles, feedback, input>>

\* what the billing provider reports for an account
BillingStates ==
    {[subscribed |-> FALSE, subscription_tier |-> NULL,
      subscription_end |-> NULL, trial_end |-> NULL],
     [subscribed |-> TRUE, subscription_tier |-> "trial",
      subscription_end |-> NULL, trial_end |-> "t1"],
     [subscribed |-> TRUE, subscription_tier |-> "basic",
      subscription_end |-> "t1", trial_end |-> NULL],
     [subscribed |-> TRUE, subscription_tier |-> "pro",
      subscription_end |-> "t1", trial_end |-> NULL]}

\* the billing function, with the service role: it mirrors the provider's
\* state of an account into the account's row
BillingSync(u, state) ==
    /\ subscribers' = [subscribers EXCEPT ![u] =
           ApplyPatch([NoSubscriber EXCEPT !.exists = TRUE, !.user_id = u,
                                           !.email = auth_email(u)], state)]
    /\ result' = Response("billing", NULL, TRUE, 1, state, {})
    /\ UNCHANGED <<clientVars, teamVars, workVars, viewVars, profiles, feedback, input>>

-----------------------------------------------------------------------------
(* Specification of the subscribers table *)

\* what a client may send as its row: any owner, any e-mail, free or pro
SubscriberRequests ==
    {[user_id |-> u, email |-> auth_email(e)] @@ state :
        u \in Users, e \in Users,
        state \in {b \in BillingStates : b.subscription_tier \in {NULL, "pro"}}}

SubscriberPatches ==
    {[subscribed |-> TRUE, subscription_tier |-> "pro"],
     [subscription_end |-> "t2"],
     [user_id |-> "u2"], [email |-> OtherEmail]}

InitSubscribers ==
    /\ profiles = SeededProfiles
    /\ feedback = << >>
    /\ subscribers = [u \in Users |-> NoSubscriber]
    /\ input = NoInput
    /\ result = NoResult
    /\ ClientIdle
    /\ TeamIdle

ClientInsertSubscriber ==
    \E uid \in Principals, request \in SubscriberRequests :
        InsertSubscriber(uid, request)

ClientUpdateSubscriber ==
    \E uid \in Principals, target \in Users, patch \in SubscriberPatches :
        UpdateSubscriber(uid, target, patch)

DoBillingSync == \E u \in Users, state \in BillingStates : BillingSync(u, state)

NextSubscribers ==
    \/ ClientInsertSubscriber
    \/ ClientUpdateSubscriber
    \/ DoBillingSync

SpecSubscribers == InitSubscribers /\ [][NextSubscribers]_vars

ClientOps == {"sub_insert", "sub_update"}

BillingColumns(row) ==
    <<row.subscribed, row.subscription_tier, row.subscription_end, row.trial_end>>

-----------------------------------------------------------------------------
(* The subscription state in a browser tab (SubscriptionProvider) *)

\* what check-subscription answers for an account: the account's state in
\* subscribers
check_subscription(u) ==
    IF subscribers[u].exists
    THEN [subscribed |-> subscribers[u].subscribed,
          subscription_tier |-> subscribers[u].subscription_tier]
    ELSE [subscribed |-> FALSE, subscription_tier |-> NULL]

\* the subscription states of an account: none, the tiers the pages compare
\* with ('trial', 'basic', 'pro') and the names IntelligentAnalytics compares
\* with ('Basic', 'Premium')
Plans ==
    {[subscribed |-> FALSE, subscription_tier |-> NULL]} \cup
    {[subscribed |-> TRUE, subscription_tier |-> tier] :
        tier \in {"trial", "basic", "pro", "Basic", "Premium"}}

\* the effect "Set usage limits based on subscription tier"
UsageLimitFor(subscribed, subscriptionTier) ==
    IF ~subscribed THEN 0
    ELSE IF subscriptionTier = "Basic" THEN 10
    ELSE IF subscriptionTier = "Premium" \/ subscriptionTier = "Enterprise" THEN -1
    ELSE 0

\* the page is loaded in tab t by the signed-in user u
OpenTab(t, u) ==
    /\ ~tabs[t].open
    /\ profiles[u].exists
    /\ tabs' = [tabs EXCEPT ![t] = [ClosedTab EXCEPT !.open = TRUE, !.user = u]]
    /\ UNCHANGED <<profiles, feedback, subscribers, input, result,
                   events, invoked, teamVars, workVars, viewVars>>

\* checkSubscription of SubscriptionProvider, when the function has answered,
\* and the usage-limit effect of the render that follows
checkSubscription(t) ==
    LET data == check_subscription(tabs[t].user)
        subscribed == data.subscribed
        subscriptionTier == data.subscription_tier
    IN  /\ tabs[t].open
        /\ tabs' = [tabs EXCEPT ![t].subscribed = subscribed,
                                ![t].subscriptionTier = subscriptionTier,
                                ![t].usageLimit =
                                    IF tabs[t].mounted
                                    THEN UsageLimitFor(subscribed, subscriptionTier)
                                    ELSE @]
        /\ UNCHANGED <<profiles, feedback, subscribers, input, result,
                       events, invoked, teamVars, workVars, viewVars>>

-----------------------------------------------------------------------------
(* IntelligentAnalytics: the monthly allowance of AI analyses *)

\* policy "Admins can view all events" (FOR SELECT), the only SELECT policy
\* of analytics_events
AdminsCanViewAllEvents(uid, row) == get_user_role(uid) = "admin"

\* policy "Users can create their own events" (FOR INSERT WITH CHECK)
UsersCanCreateTheirOwnEvents(uid, row) ==
    SqlEq(row.user_id, uid) \/ row.user_id = NULL

\* the rows getUsageCount is answered with: the caller's ai_analysis events
\* since the first day of the month, as far as the caller may see them
UsageRows(uid) ==
    {i \in DOMAIN events :
        /\ AdminsCanViewAllEvents(uid, events[i])
        /\ SqlEq(events[i].user_id, uid)
        /\ events[i].event_type = "ai_analysis"
        /\ events[i].month = "cur"}

\* canUseAI of a tab
canUseAI(tab) ==
    IF ~tab.subscribed THEN FALSE
    ELSE IF tab.usageLimit = -1 THEN TRUE
    ELSE tab.usageCount < tab.usageLimit

\* the most analyze-feedback calls an account makes here beyond the 10 of the
\* Basic plan
MaxOver == 1

\* analyzeData up to its first await, in the closure of a render with the
\* given usageLimit
analyzeDataStart(t, usageLimit) ==
    LET tab == tabs[t] IN
    IF ~canUseAI([tab EXCEPT !.usageLimit = usageLimit])
    THEN /\ tabs' = [tabs EXCEPT ![t].toast = "Usage Limit Reached"]
         /\ UNCHANGED invoked
    ELSE /\ invoked[tab.user] < 10 + MaxOver
         /\ tabs' = [tabs EXCEPT ![t].pc = "invoking"]
         /\ invoked' = [invoked EXCEPT ![tab.user] = @ + 1]

\* IntelligentAnalytics is mounted in tab t: its first render has the
\* useState defaults, and its effects set the limit, ask for the usage count
\* and call analyzeData() in the closure of that render (usageLimit = 0)
MountAnalytics(t) ==
    /\ tabs[t].open
    /\ ~tabs[t].mounted
    /\ tabs' = [tabs EXCEPT ![t].mounted = TRUE,
                            ![t].counting = TRUE,
                            ![t].usageLimit =
                                UsageLimitFor(tabs[t].subscribed, tabs[t].subscriptionTier),
                            ![t].toast =
                                IF canUseAI([tabs[t] EXCEPT !.usageLimit = 0])
                                THEN @ ELSE "Usage Limit Reached"]
    /\ UNCHANGED <<profiles, feedback, subscribers, input, result,
                   events, invoked, teamVars, workVars, viewVars>>

\* getUsageCount, when the store has answered
getUsageCount(t) ==
    /\ tabs[t].counting
    /\ tabs' = [tabs EXCEPT ![t].counting = FALSE,
                            ![t].usageCount = Cardinality(UsageRows(tabs[t].user))]
    /\ UNCHANGED <<profiles, feedback, subscribers, input, result,
                   events, invoked, teamVars, workVars, viewVars>>

\* analyzeData, called by a click or by a change of the time range, up to
\* supabase.functions.invoke('analyze-feedback')
analyzeData(t) ==
    /\ tabs[t].mounted
    /\ tabs[t].pc = "idle"
    /\ analyzeDataStart(t, tabs[t].usageLimit)
    /\ UNCHANGED <<profiles, feedback, subscribers, input, result, events, teamVars, workVars, viewVars>>

\* analyzeData after the invocation has answered
analyzeDataAnswered(t, success) ==
    /\ tabs[t].pc = "invoking"
    /\ tabs' = [tabs EXCEPT
                  ![t].pc = IF success /\ tabs[t].subscriptionTier = "Basic"
                            THEN "tracking" ELSE "idle",
                  ![t].toast = IF ~success THEN "Analysis Failed"
                               ELSE IF tabs[t].subscriptionTier = "Basic" THEN @
                               ELSE "Analysis Complete"]
    /\ UNCHANGED <<profiles, feedback, subscribers, input, result,
                   events, invoked, teamVars, workVars, viewVars>>

\* analyzeData after the insert into analytics_events has answered ("Track
\* usage for Basic plan users")
analyzeDataTracked(t) ==
    LET row == [user_id |-> tabs[t].user, event_type |-> "ai_analysis", month |-> "cur"]
    IN  /\ tabs[t].pc = "tracking"
        /\ events' = IF UsersCanCreateTheirOwnEvents(tabs[t].user, row)
                     THEN Append(events, row) ELSE events
        /\ tabs' = [tabs EXCEPT ![t].pc = "idle",
                                ![t].usageCount = @ + 1,
                                ![t].toast = "Analysis Complete"]
        /\ UNCHANGED <<profiles, feedback, subscribers, input, result,
                       invoked, teamVars, workVars, viewVars>>

-----------------------------------------------------------------------------
(* Specification of the allowance: every account has the same plan, and has *)
(* used the analysis a number of times this month already                   *)

\* the profiles once both accounts exist: u2 the seeded admin, u1 a user
BothProfiles ==
    [SeededProfiles EXCEPT !["u1"] =
        [exists |-> TRUE, id |-> ProfileIdOf("u1"), role |-> "user",
         branch_id |-> DefaultBranch]]

\* the events an account has logged: one last month, n this month
LoggedEvents(u, n) ==
    [i \in 1..(n + 1) |->
        [user_id |-> u, event_type |-> "ai_analysis",
         month |-> IF i = 1 THEN "prev" ELSE "cur"]]

\* how many analyses each account has made this month at the start
UsedBefore == {9, 10}

InitQuota ==
    /\ profiles = BothProfiles
    /\ feedback = << >>
    /\ \E plan \in Plans :
          subscribers = [u \in Users |->
              ApplyPatch([NoSubscriber EXCEPT !.exists = TRUE, !.user_id = u,
                                              !.email = auth_email(u)], plan)]
    /\ input = NoInput
    /\ result = NoResult
    /\ tabs = [t \in Tabs |-> ClosedTab]
    /\ \E n \in UsedBefore :
          /\ events = LoggedEvents("u1", n) \o LoggedEvents("u2", n)
          /\ invoked = [u \in Users |-> n]
    /\ TeamIdle

DoOpenTab == \E t \in Tabs, u \in Users : OpenTab(t, u)

DoCheckSubscription == \E t \in Tabs : checkSubscription(t)

DoMountAnalytics == \E t \in Tabs : MountAnalytics(t)

DoGetUsageCount == \E t \in Tabs : getUsageCount(t)

DoAnalyzeData == \E t \in Tabs : analyzeData(t)

DoAnalyzeDataAnswered == \E t \in Tabs, success \in BOOLEAN : analyzeDataAnswered(t, success)

DoAnalyzeDataTracked == \E t \in Tabs : analyzeDataTracked(t)

NextQuota ==
    \/ DoOpenTab
    \/ DoCheckSubscription
    \/ DoMountAnalytics
    \/ DoGetUsageCount
    \/ DoAnalyzeData
    \/ DoAnalyzeDataAnswered
    \/ DoAnalyzeDataTracked

SpecQuota == InitQuota /\ [][NextQuota]_vars

-----------------------------------------------------------------------------
(* Properties of the allowance *)

\* the account is on the basic tier, under either name of it
BasicTier(u) ==
    /\ subscribers[u].exists
    /\ subscribers[u].subscribed
    /\ subscribers[u].subscription_tier \in {"basic", "Basic"}

\* the ai_analysis events of this month that analytics_events holds for u
LoggedThisMonth(u) ==
    Cardinality({i \in DOMAIN events :
                    /\ events[i].user_id = u
                    /\ events[i].event_type = "ai_analysis"
                    /\ events[i].month = "cur"})

-----------------------------------------------------------------------------
(* Dashboard and FeedbackList: translation and export *)

Languages == {"en", "fr"}

\* Dashboard.handleTranslateClick in tab t
handleTranslateClick(t) ==
    /\ tabs[t].open
    /\ tabs' = IF tabs[t].subscriptionTier # "pro"
               THEN [tabs EXCEPT ![t].showPricingModal = TRUE]
               ELSE [tabs EXCEPT ![t].showTranslate = ~tabs[t].showTranslate]
    /\ UNCHANGED <<profiles, feedback, subscribers, input, result,
                   events, invoked, teamVars, workVars, viewVars>>

\* the LanguageSelector is rendered in tab t
LanguageSelectorShown(t) ==
    tabs[t].open /\ tabs[t].showTranslate /\ tabs[t].subscriptionTier = "pro"

\* Dashboard.handleLanguageChange in tab t, called by the LanguageSelector
handleLanguageChange(t, lang) ==
    /\ LanguageSelectorShown(t)
    /\ tabs' = IF tabs[t].subscriptionTier # "pro"
               THEN [tabs EXCEPT ![t].showPricingModal = TRUE]
               ELSE [tabs EXCEPT ![t].selectedLanguage = lang,
                                 ![t].translating = lang]
    /\ UNCHANGED <<profiles, feedback, subscribers, input, result,
                   events, invoked, teamVars, workVars, viewVars>>

\* onOpenChange of the pricing dialog: the user closes it
ClosePricingModal(t) ==
    /\ tabs[t].showPricingModal
    /\ tabs' = [tabs EXCEPT ![t].showPricingModal = FALSE]
    /\ UNCHANGED <<profiles, feedback, subscribers, input, result,
                   events, invoked, teamVars, workVars, viewVars>>

\* a mutant of the export gate that lets every subscribed tier through
ExportAllowed_AnyTier(subscriptionTier) == subscriptionTier # NULL

\* the gate of exportFeedbackData
ExportAllowed(subscriptionTier) == subscriptionTier = "pro"

\* FeedbackList.exportFeedbackData in tab t; answered says whether the
\* select on feedback came back without an error
exportFeedbackData(t, answered) ==
    LET uid == tabs[t].user IN
    /\ tabs[t].open
    /\ IF ~ExportAllowed(tabs[t].subscriptionTier)
       THEN /\ tabs' = [tabs EXCEPT ![t].toast = "Pro Plan Required"]
            /\ result' = Response("export", uid, FALSE, 0, [tab |-> t], {})
       ELSE IF ~answered
       THEN /\ tabs' = [tabs EXCEPT ![t].fetched = TRUE, ![t].toast = "Export Failed"]
            /\ result' = Response("export", uid, FALSE, 0, [tab |-> t], {})
       ELSE /\ tabs' = [tabs EXCEPT ![t].fetched = TRUE, ![t].exported = TRUE,
                                    ![t].toast = "Export Complete"]
            /\ result' = Response("export", uid, TRUE, Cardinality(SelectFeedback(uid)),
                                  [tab |-> t], SelectFeedback(uid))
    /\ UNCHANGED <<profiles, feedback, subscribers, input, events, invoked, teamVars, workVars, viewVars>>

-----------------------------------------------------------------------------
(* Specification of the gates: every account has the same plan, and one     *)
(* feedback row is stored                                                   *)

\* the row the store holds for an accepted request
StoredRow(id, request) == ApplyPatch([id |-> id] @@ FeedbackDefaults, request)

\* one stored submission of a named customer to branch b1
SeededFeedback ==
    <<StoredRow(1, [subject |-> SomeSubject, message |-> SomeMessage, rating |-> 3,
                    branch_id |-> "b1", customer_name |-> SomeName,
                    is_anonymous |-> FALSE, customer_email |-> SomeEmail,
                    customer_phone |-> SomePhone])>>

InitGates ==
    /\ profiles = BothProfiles
    /\ feedback = SeededFeedback
    /\ \E plan \in Plans :
          subscribers = [u \in Users |->
              ApplyPatch([NoSubscriber EXCEPT !.exists = TRUE, !.user_id = u,
                                              !.email = auth_email(u)], plan)]
    /\ input = NoInput
    /\ result = NoResult
    /\ ClientIdle
    /\ TeamIdle

DoTranslateClick == \E t \in Tabs : handleTranslateClick(t)

DoLanguageChange == \E t \in Tabs, lang \in Languages : handleLanguageChange(t, lang)

DoClosePricingModal == \E t \in Tabs : ClosePricingModal(t)

DoExportFeedbackData == \E t \in Tabs, answered \in BOOLEAN : exportFeedbackData(t, answered)

NextGates ==
    \/ DoOpenTab
    \/ DoCheckSubscription
    \/ DoTranslateClick
    \/ DoLanguageChange
    \/ DoClosePricingModal
    \/ DoExportFeedbackData

SpecGates == InitGates /\ [][NextGates]_vars

\* C13: the handlers start translation when subscriptionTier is trial or
\* pro, and for no tier and for basic they start no translation and show the
\* upgrade dialog
C13_TranslationForTrialAndPro ==
    [][\A t \in Tabs :
          LET before == tabs[t]
              after == tabs'[t]
          IN  /\ before.subscriptionTier \in {NULL, "basic"}
                    => /\ after.showTranslate = before.showTranslate
                       /\ after.translating = before.translating
              /\ (before.open /\ before.subscriptionTier \in {"trial", "pro"})
                    => (after.showPricingModal => before.showPricingModal)]_vars

\* C14: exportFeedbackData fetches feedback and produces a file only when
\* subscriptionTier is pro; for every other tier it fetches nothing, produces
\* no file and reports that the Pro plan is required
C14_ExportOnlyForPro ==
    [][\A t \in Tabs :
          LET before == tabs[t]
              after == tabs'[t]
              called == /\ result' # result
                        /\ result'.op = "export"
                        /\ result'.req.tab = t
          IN  /\ before.subscriptionTier # "pro"
                    => /\ after.fetched = before.fetched
                       /\ after.exported = before.exported
              /\ (called /\ before.subscriptionTier # "pro")
                    => /\ after.toast = "Pro Plan Required"
                       /\ ~result'.ok
                       /\ result'.rows = {}
              /\ (called /\ before.subscriptionTier = "pro")
                    => /\ after.fetched
                       /\ result'.ok => (after.exported /\ result'.rows = SelectFeedback(tabs[t].user))]_vars

\* a tab of a basic-tier account was refused the export, and has fetched and
\* exported nothing
C14_Witness ==
    \E t \in Tabs :
        /\ tabs[t].subscriptionTier = "basic"
        /\ tabs[t].toast = "Pro Plan Required"
        /\ result.op = "export"
        /\ ~tabs[t].fetched
        /\ ~tabs[t].exported
        /\ Len(feedback) > 0

-----------------------------------------------------------------------------
(* TeamManagement.addTeamMember, one request of it at a time *)

\* policies of team_invitations: "Team managers can view / create / update /
\* delete team invitations", all with the same condition
TeamManagersInvitationPolicy(uid, row) ==
    /\ row.team_id \in Teams
    /\ SqlEq(teams[row.team_id].manager_id, get_user_profile_id(uid))

\* the policies of team_members that apply to every command (FOR ALL)
TeamMembersManagePolicies(uid, row) ==
    \/ get_user_role(uid) = "admin"
    \/ is_team_manager(uid, row.team_id)

\* the policies of team_members that apply to SELECT
TeamMembersSelectPolicies(uid, row) ==
    \/ TeamMembersManagePolicies(uid, row)
    \/ SqlEq(row.user_id, get_user_profile_id(uid))

\* the e-mail column of the profile of account u, as handle_new_user set it
ProfileEmail(u) == auth_email(u)

\* from('profiles').select(...).eq('email', email): the ids of the rows the
\* caller is shown
ProfilesByEmail(uid, email) ==
    {profiles[u].id : u \in {v \in Users : /\ profiles[v].exists
                                           /\ ProfileSelectPolicies(uid, v)
                                           /\ ProfileEmail(v) = email}}

\* from('team_invitations').select('id, status').eq('team_id', ...)
\* .eq('email', ...).eq('status', 'pending'): the rows the caller is shown
PendingInvitations(uid, team, email) ==
    {i \in DOMAIN team_invitations :
        /\ TeamManagersInvitationPolicy(uid, team_invitations[i])
        /\ team_invitations[i].team_id = team
        /\ team_invitations[i].email = email
        /\ team_invitations[i].status = "pending"}

\* team_invitations without UNIQUE(team_id, email)
IsInvited_NoConstraint(team, email) == FALSE

\* UNIQUE(team_id, email) of team_invitations: a row of that pair exists
IsInvited(team, email) ==
    \E i \in DOMAIN team_invitations :
        team_invitations[i].team_id = team /\ team_invitations[i].email = email

\* the row INSERT INTO team_invitations (team_id, email, role, invited_by)
\* stores, with the defaults of the other columns
NewInvitation(team, email, role, invited_by) ==
    [id |-> Len(team_invitations) + 1, team_id |-> team, email |-> email,
     role |-> role, invited_by |-> invited_by, status |-> "pending",
     expires_at |-> now + InvitationLifetime]

\* addTeamMember is submitted in session s by uid (each session submits the
\* form once); it asks for the profile with the e-mail address
addTeamMemberStart(s, uid, team, email, role) ==
    LET found == ProfilesByEmail(uid, email)
        existingProfile == IF found = {} THEN NULL ELSE CHOOSE p \in found : TRUE
    IN  /\ adding[s].pc = "idle"
        /\ profiles[uid].exists
        /\ adding' = [adding EXCEPT ![s] =
              [pc |-> IF existingProfile # NULL THEN "member" ELSE "invitation",
               uid |-> uid, team |-> team, email |-> email, role |-> role,
               existingProfile |-> existingProfile, toast |-> "none",
               mail |-> "none", dialogOpen |-> TRUE]]
        /\ UNCHANGED <<profiles, feedback, subscribers, input, result, clientVars, workVars, viewVars,
                       team_invitations, team_members, now>>

\* "Check if user is already a member of this team"
addTeamMemberMember(s) ==
    LET a == adding[s]
        existingMember ==
            \E m \in team_members :
                /\ TeamMembersSelectPolicies(a.uid, m)
                /\ m.team_id = a.team
                /\ m.user_id = a.existingProfile
    IN  /\ a.pc = "member"
        /\ adding' = IF existingMember
                     THEN [adding EXCEPT ![s] = Finished("Already a member")]
                     ELSE [adding EXCEPT ![s].pc = "invitation"]
        /\ UNCHANGED <<profiles, feedback, subscribers, input, result, clientVars, workVars, viewVars,
                       team_invitations, team_members, now>>

\* "Check if there's already a pending invitation for this email"
addTeamMemberInvitation(s) ==
    LET a == adding[s]
        existingInvitation == PendingInvitations(a.uid, a.team, a.email) # {}
    IN  /\ a.pc = "invitation"
        /\ adding' = IF existingInvitation
                     THEN [adding EXCEPT ![s] = Finished("Invitation already sent")]
                     ELSE [adding EXCEPT ![s].pc = "insert"]
        /\ UNCHANGED <<profiles, feedback, subscribers, input, result, clientVars, workVars, viewVars,
                       team_invitations, team_members, now>>

\* "Get current user's profile ID for the invitation", then the insert into
\* team_members or into team_invitations
addTeamMemberInsert(s) ==
    LET a == adding[s]
        currentProfile == get_user_profile_id(a.uid)
        member == [team_id |-> a.team, user_id |-> a.existingProfile, role |-> a.role]
        memberOk == /\ TeamMembersManagePolicies(a.uid, member)
                    /\ ~IsMember(team_members, a.team, a.existingProfile)
        invitation == NewInvitation(a.team, a.email, a.role, currentProfile)
        invitationOk == /\ TeamManagersInvitationPolicy(a.uid, invitation)
                        /\ a.role \in InvitationRoles
                        /\ ~IsInvited(a.team, a.email)
    IN  /\ a.pc = "insert"
        /\ IF currentProfile = NULL
           THEN /\ adding' = [adding EXCEPT ![s] = Finished("Error")]
                /\ UNCHANGED <<team_invitations, team_members>>
           ELSE IF a.existingProfile # NULL
           THEN /\ team_members' = IF memberOk THEN team_members \cup {member}
                                               ELSE team_members
                /\ adding' = IF memberOk
                             THEN [adding EXCEPT ![s].pc = "mail",
                                                 ![s].toast = "Member added"]
                             ELSE [adding EXCEPT ![s] = Finished("Error")]
                /\ UNCHANGED team_invitations
           ELSE /\ team_invitations' = IF invitationOk
                                       THEN Append(team_invitations, invitation)
                                       ELSE team_invitations
                /\ adding' = IF invitationOk
                             THEN [adding EXCEPT ![s].pc = "mail",
                                                 ![s].toast = "Invitation sent"]
                             ELSE [adding EXCEPT ![s] = Finished("Error")]
                /\ UNCHANGED team_members
        /\ UNCHANGED <<profiles, feedback, subscribers, input, result, clientVars, workVars, viewVars, now>>

\* mutant: a failure of the e-mail reaches the outer catch block
MailToast_Thrown(toast, sent) == IF sent THEN toast ELSE "Error"

\* the inner try/catch around send-team-invitation: "Don't fail the
\* invitation if email fails", the toast of the insert stays
MailToast(toast, sent) == toast

\* "Send invitation email in both cases": the function answers that the mail
\* was sent, or it fails; then the dialog is closed and the lists are
\* fetched again, unless the outer catch block was reached
addTeamMemberMail(s, sent) ==
    LET toast == MailToast(adding[s].toast, sent) IN
    /\ adding[s].pc = "mail"
    /\ adding' = [adding EXCEPT ![s] =
          [Finished(toast) EXCEPT !.mail = IF sent THEN "sent" ELSE "failed",
                                  !.dialogOpen = (toast = "Error")]]
    /\ UNCHANGED <<profiles, feedback, subscribers, input, result, clientVars, workVars, viewVars,
                   team_invitations, team_members, now>>

-----------------------------------------------------------------------------
(* Specification of the invitations: the manager of the teams (and any      *)
(* other account) adds members, the invited sign up, weeks pass             *)

\* how many invitation lifetimes the clock runs through
MaxWeeks == 1

\* what the add-member form is filled with: the team and the e-mail address
FormTargets == {<<"T1", SomeEmail>>, <<"T2", SomeEmail>>, <<"T1", ThirdEmail>>}

FormRoles == {"member", "lead"}

\* the accounts that use the add-member form: the manager of the teams
Callers == {"u2"}

InitTeam ==
    /\ profiles = SeededProfiles
    /\ feedback = << >>
    /\ subscribers = [u \in Users |-> NoSubscriber]
    /\ input = NoInput
    /\ result = NoResult
    /\ ClientIdle
    /\ TeamIdle

\* a week passes
AdvanceClock ==
    /\ now < MaxWeeks * InvitationLifetime
    /\ now' = now + InvitationLifetime
    /\ UNCHANGED <<profiles, feedback, subscribers, input, result, clientVars, workVars, viewVars,
                   team_invitations, team_members, adding>>

DoAddTeamMemberStart ==
    \E s \in Sessions, uid \in Callers, target \in FormTargets, role \in FormRoles :
        addTeamMemberStart(s, uid, target[1], target[2], role)

DoAddTeamMemberMember == \E s \in Sessions : addTeamMemberMember(s)

DoAddTeamMemberInvitation == \E s \in Sessions : addTeamMemberInvitation(s)

DoAddTeamMemberInsert == \E s \in Sessions : addTeamMemberInsert(s)

DoAddTeamMemberMail == \E s \in Sessions, sent \in BOOLEAN : addTeamMemberMail(s, sent)

NextTeam ==
    \/ DoAddTeamMemberStart
    \/ DoAddTeamMemberMember
    \/ DoAddTeamMemberInvitation
    \/ DoAddTeamMemberInsert
    \/ DoAddTeamMemberMail
    \/ DoSignUp
    \/ AdvanceClock

SpecTeam == InitTeam /\ [][NextTeam]_vars

-----------------------------------------------------------------------------
(* Claims about the invitations *)

\* the pending invitations of the pair (team, email)
PendingOf(invitations, team, email) ==
    {i \in DOMAIN invitations : /\ invitations[i].team_id = team
                                /\ invitations[i].email = email
                                /\ invitations[i].status = "pending"}

\* no pair (team, email) has two pending invitations
AtMostOnePending(invitations) ==
    \A i, j \in DOMAIN invitations :
        /\ invitations[i].team_id = invitations[j].team_id
        /\ invitations[i].email = invitations[j].email
        /\ invitations[i].status = "pending"
        /\ invitations[j].status = "pending"
        => i = j

\* in this step the call of session s, made for an address without a
\* profile, gets the answer to its lookup of the invitation or to its insert
InvitationAttemptAnswered(s) ==
    /\ adding[s].pc \in {"invitation", "insert"}
    /\ adding[s].existingProfile = NULL
    /\ adding'[s].pc \in {"done", "mail"}

\* in this step the call of session s is answered while the pair it was made
\* for has a pending invitation
DuplicateAttemptAnswered(s) ==
    /\ InvitationAttemptAnswered(s)
    /\ PendingOf(team_invitations, adding[s].team, adding[s].email) # {}

ExpiredUnaccepted(team, email) ==
    /\ \E i \in DOMAIN team_invitations :
          team_invitations[i].team_id = team /\ team_invitations[i].email = email
    /\ \A i \in DOMAIN team_invitations :
          team_invitations[i].team_id = team /\ team_invitations[i].email = email
          => /\ team_invitations[i].status # "accepted"
             /\ team_invitations[i].expires_at <= now

\* C16: an attempt to invite a pair (team, email) whose invitation has passed
\* its expires_at without being accepted stores a new invitation and ends with
\* the message that the invitation was sent
C16_InviteAgainAfterExpiry ==
    [][\A s \in Sessions :
          InvitationAttemptAnswered(s)
          /\ ExpiredUnaccepted(adding[s].team, adding[s].email)
          => /\ adding'[s].toast = "Invitation sent"
             /\ Len(team_invitations') = Len(team_invitations) + 1]_vars

\* C17: no invitation that the lookup of addTeamMember returns (each of them
\* with the status pending, which the request filters on) is past its
\* expires_at at the time it is read
C17_ExpiredNeverReadAsPending ==
    [][\A s \in Sessions :
          adding[s].pc = "invitation" /\ adding'[s].pc # "invitation"
          => \A i \in PendingInvitations(adding[s].uid, adding[s].team, adding[s].email) :
                team_invitations[i].expires_at > now]_vars

\* in this step the account u is created
AccountCreated(u) == ~profiles[u].exists /\ profiles'[u].exists

\* the invitation is for the address, pending and not past its expires_at
PendingUnexpiredFor(row, email) ==
    row.email = email /\ row.status = "pending" /\ now < row.expires_at

\* the membership that accepting the invitation gives the profile pid
MembershipOf(row, pid) == [team_id |-> row.team_id, user_id |-> pid, role |-> row.role]

\* C18: when an account is created with the address E, every invitation for E
\* that is pending and not past its expires_at becomes accepted and the new
\* profile becomes a member of its team with its role; every other
\* invitation stays as it was, and no other membership appears
C18_SignUpAcceptsPendingInvitations ==
    [][\A u \in Users :
          AccountCreated(u)
          => LET E == auth_email(u)
                 pid == profiles'[u].id
                 accepted == {i \in DOMAIN team_invitations :
                                 PendingUnexpiredFor(team_invitations[i], E)}
             IN  /\ DOMAIN team_invitations' = DOMAIN team_invitations
                 /\ \A i \in accepted :
                       /\ team_invitations'[i] =
                             [team_invitations[i] EXCEPT !.status = "accepted"]
                       /\ MembershipOf(team_invitations[i], pid) \in team_members'
                 /\ \A i \in DOMAIN team_invitations \ accepted :
                       team_invitations'[i] = team_invitations[i]
                 /\ team_members' =
                       team_members \cup {MembershipOf(team_invitations[i], pid) :
                                             i \in accepted}]_vars

\* the account of a@b.aa was created while it had an unexpired invitation to
\* each team and another address had an invitation: both of its invitations
\* are accepted, it is a member of both teams, the other invitation is pending
C18_Witness ==
    /\ profiles["u1"].exists
    /\ \A t \in Teams :
          /\ \E i \in DOMAIN team_invitations :
                /\ team_invitations[i].team_id = t
                /\ team_invitations[i].email = auth_email("u1")
                /\ team_invitations[i].status = "accepted"
                /\ MembershipOf(team_invitations[i], profiles["u1"].id) \in team_members
    /\ \E i \in DOMAIN team_invitations :
          /\ team_invitations[i].email = ThirdEmail
          /\ team_invitations[i].status = "pending"

\* no pair (team, profile) has two memberships
AtMostOneMembership(members) ==
    \A m1, m2 \in members :
        m1.team_id = m2.team_id /\ m1.user_id = m2.user_id => m1 = m2

\* C19: after any sequence of invitations, direct additions of members and
\* sign-ups no pair (team, profile) has more than one membership, and an
\* invitation that is accepted is never written again nor turned into a
\* membership by a later sign-up
C19_OneMembershipPerInvitation ==
    [][/\ AtMostOneMembership(team_members')
       /\ \A i \in DOMAIN team_invitations :
             team_invitations[i].status = "accepted"
             => /\ i \in DOMAIN team_invitations'
                /\ team_invitations'[i] = team_invitations[i]
                /\ \A u \in Users :
                      AccountCreated(u) /\ team_invitations[i].email = auth_email(u)
                      => MembershipOf(team_invitations[i], profiles'[u].id)
                            \notin team_members' \ team_members]_vars

\* two direct additions of the same profile to the same team ran at once:
\* one stored the membership, the insert of the other was rejected
C19_Witness ==
    /\ team_invitations = << >>
    /\ Cardinality(team_members) = 1
    /\ \E s1, s2 \in Sessions :
          /\ adding[s1].toast = "Member added"
          /\ adding[s2].pc = "done" /\ adding[s2].toast = "Error"

-----------------------------------------------------------------------------
(* Specification of the assignee: one stored feedback row, assigned or not  *)
(* to the profile of an account that is neither admin nor manager, and      *)
(* updates of every column of it                                            *)

\* new Date().toISOString() of updateFeedbackStatus
ResolvedNow == "now"

\* FeedbackList.updateFeedbackStatus(feedbackId, newStatus)
updateFeedbackStatus(uid, feedbackId, newStatus) ==
    UpdateFeedback(uid, feedbackId,
                   [status |-> newStatus,
                    resolved_at |-> IF newStatus = "resolved" THEN ResolvedNow ELSE NULL])

OtherSubject == Rep("b", 7)

OtherMessage == Rep("b", 30)

\* UPDATE statements sent to the store directly, one for each column group
\* of the feedback table
ColumnPatches ==
    {[rating |-> 1], [subject |-> OtherSubject], [message |-> OtherMessage],
     [branch_id |-> "b2"], [is_anonymous |-> TRUE],
     [customer_name |-> NullText, customer_email |-> OtherEmail,
      customer_phone |-> NullText],
     [assigned_to |-> "p1"], [assigned_to |-> "p2"], [assigned_to |-> NULL]}

InitAssignee ==
    /\ \E role \in {"staff", "user"} :
          profiles = [BothProfiles EXCEPT !["u1"].role = role]
    /\ \E assignee \in {NULL, "p1"} :
          feedback = <<[SeededFeedback[1] EXCEPT !.assigned_to = assignee]>>
    /\ subscribers = [u \in Users |-> NoSubscriber]
    /\ input = NoInput
    /\ result = NoResult
    /\ ClientIdle
    /\ TeamIdle

DoUpdateFeedbackStatus ==
    \E uid \in Principals, id \in Indexes, newStatus \in Statuses :
        updateFeedbackStatus(uid, id, newStatus) /\ UNCHANGED lists

DoUpdateColumns ==
    \E uid \in Principals, id \in Indexes, patch \in ColumnPatches :
        UpdateFeedback(uid, id, patch) /\ UNCHANGED lists

NextAssignee ==
    \/ DoUpdateFeedbackStatus
    \/ DoUpdateColumns

SpecAssignee == InitAssignee /\ [][NextAssignee]_vars

\* the columns an assignee may not change
ContentColumns ==
    {"rating", "subject", "message", "branch_id", "is_anonymous",
     "customer_name", "customer_email", "customer_phone"}

\* C20: an update made by an account whose role is neither admin nor manager
\* changes a feedback row in no column other than status, resolved_at,
\* assigned_to: rating, subject, message, branch_id, is_anonymous and the
\* customer columns are after it what they were before
C20_AssigneeChangesOnlyStatusFields ==
    [][\A u \in Users :
          /\ result'.op = "update"
          /\ result'.caller = u
          /\ get_user_role(u) \notin {"admin", "manager"}
          /\ feedback' # feedback
          => \A i \in Indexes : \A col \in ContentColumns :
                feedback'[i][col] = feedback[i][col]]_vars

-----------------------------------------------------------------------------
(* Claims about rows without a branch *)

\* C21: every select on feedback and every call of get_feedback_for_staff made
\* by an admin or by a manager, whatever the manager's branch, returns each
\* stored row whose branch_id is null
C21_NullBranchVisibleToManagers ==
    /\ result.op \in {"select", "rpc"}
    /\ get_user_role(result.caller) \in {"admin", "manager"}
    => \A i \in Indexes :
          feedback[i].branch_id = NULL => \E r \in result.rows : r.id = i

-----------------------------------------------------------------------------
(* Teams and tasks: the row-level policies and the requests of the task list *)

\* the values of tasks.status the task list uses
TaskStatuses == {"pending", "in_progress", "completed"}

\* policies "Admins can manage all teams", "Managers can manage their branch
\* teams" (FOR ALL) and "Managers can view all teams in their branch" (FOR
\* SELECT) of teams; "Staff can view their teams" was dropped
TeamSelectPolicies(uid, team) ==
    \/ get_user_role(uid) = "admin"
    \/ /\ get_user_role(uid) = "manager"
       /\ SqlEq(teams[team].branch_id, get_user_branch(uid))
    \/ get_user_role(uid) \in {"admin", "manager"}

\* policies "Admins can manage all tasks" and "Team managers can manage their
\* team tasks" (FOR ALL) of tasks
TaskManagePolicies(uid, row) ==
    \/ get_user_role(uid) = "admin"
    \/ (row.team_id # NULL /\ is_team_manager(uid, row.team_id))

\* policy "Users can view assigned tasks" (FOR SELECT)
UsersCanViewAssignedTasks(uid, row) ==
    \/ row.assigned_to \in OwnProfileIds(uid)
    \/ row.assigned_by \in OwnProfileIds(uid)

\* policy "Users can update their assigned tasks" (FOR UPDATE)
UsersCanUpdateTheirAssignedTasks(uid, row) ==
    row.assigned_to \in OwnProfileIds(uid)

TaskSelectPolicies(uid, row) ==
    TaskManagePolicies(uid, row) \/ UsersCanViewAssignedTasks(uid, row)

\* mutant: whoever assigned the task may update it as well
TaskUpdatePolicies_AssignedBy(uid, row) ==
    \/ TaskManagePolicies(uid, row)
    \/ UsersCanUpdateTheirAssignedTasks(uid, row)
    \/ row.assigned_by \in OwnProfileIds(uid)

\* the permissive policies of tasks that apply to UPDATE are OR-ed
TaskUpdatePolicies(uid, row) ==
    TaskManagePolicies(uid, row) \/ UsersCanUpdateTheirAssignedTasks(uid, row)

\* REFERENCES constraints of the tasks table
TaskConstraints(row) ==
    /\ row.assigned_to = NULL \/ row.assigned_to \in ProfileIds
    /\ row.team_id = NULL \/ row.team_id \in Teams

\* supabase.from('tasks').select(...): the rows the SELECT policies pass
SelectTasks(uid) ==
    {tasks[i] : i \in {j \in DOMAIN tasks : TaskSelectPolicies(uid, tasks[j])}}

\* supabase.from('teams').select('id, name'): the teams the SELECT policies pass
SelectTeams(uid) == {[id |-> t] : t \in {x \in Teams : TeamSelectPolicies(uid, x)}}

\* UPDATE tasks SET <patch> WHERE id = <id>: the row must pass the SELECT and
\* the UPDATE policies, the new row the same policies and the constraints
UpdateTask(uid, id, patch) ==
    LET hit == /\ TaskSelectPolicies(uid, tasks[id])
               /\ TaskUpdatePolicies(uid, tasks[id])
        new == ApplyPatch(tasks[id], patch)
        ok  == hit => /\ TaskUpdatePolicies(uid, new)
                      /\ TaskSelectPolicies(uid, new)
                      /\ TaskConstraints(new)
    IN  /\ id \in DOMAIN tasks
        /\ tasks' = IF hit /\ ok THEN [tasks EXCEPT ![id] = new] ELSE tasks
        /\ result' = Response("taskupdate", uid, ok, IF hit /\ ok THEN 1 ELSE 0,
                              [id |-> id, patch |-> patch], {})
        /\ UNCHANGED <<profiles, feedback, subscribers, input, clientVars, teamVars,
                       feedback_responses, viewVars>>

\* TaskManagement.updateTaskStatus(taskId, newStatus)
updateTaskStatus(uid, taskId, newStatus) ==
    UpdateTask(uid, taskId,
               [status |-> newStatus,
                completed_at |-> IF newStatus = "completed" THEN ResolvedNow ELSE NULL])

\* TaskManagement.fetchTasks
fetchTasks(uid) ==
    /\ result' = Response("tasks", uid, TRUE, 0, NoRequest, SelectTasks(uid))
    /\ UNCHANGED <<profiles, feedback, subscribers, input, clientVars, teamVars,
                   workVars, viewVars>>

\* TaskManagement.fetchTeams
fetchTeams(uid) ==
    /\ result' = Response("teams", uid, TRUE, 0, NoRequest, SelectTeams(uid))
    /\ UNCHANGED <<profiles, feedback, subscribers, input, clientVars, teamVars,
                   workVars, viewVars>>

-----------------------------------------------------------------------------
(* Specification of the tasks: one stored task, of team T1 or of no team,   *)
(* the accounts in every combination of roles, u1 a member of T1 or not     *)

\* UPDATE statements on tasks sent to the store directly
TaskPatches == {[assigned_to |-> p] : p \in {NULL, "p1", "p2"}}

InitTasks ==
    /\ \E r1 \in Roles, r2 \in {"admin", "manager", "staff"} :
          profiles = [BothProfiles EXCEPT !["u1"].role = r1, !["u2"].role = r2]
    /\ \E team \in {"T1", NULL}, assigned_to \in {NULL, "p1", "p2"},
          assigned_by \in {"p1", "p2"} :
          tasks = <<[id |-> 1, status |-> "pending", completed_at |-> NULL,
                     assigned_to |-> assigned_to, assigned_by |-> assigned_by,
                     team_id |-> team]>>
    /\ team_members \in {{}, {[team_id |-> "T1", user_id |-> "p1", role |-> "member"]}}
    /\ feedback = << >>
    /\ feedback_responses = << >>
    /\ lists = [s \in Sessions |-> NoList]
    /\ subscribers = [u \in Users |-> NoSubscriber]
    /\ input = NoInput
    /\ result = NoResult
    /\ ClientIdle
    /\ team_invitations = << >>
    /\ now = 0
    /\ adding = [s \in Sessions |-> IdleSession]

DoUpdateTaskStatus ==
    \E uid \in Principals, id \in DOMAIN tasks, newStatus \in TaskStatuses :
        updateTaskStatus(uid, id, newStatus)

DoUpdateTask ==
    \E uid \in Principals, id \in DOMAIN tasks, patch \in TaskPatches :
        UpdateTask(uid, id, patch)

DoFetchTasks == \E uid \in Principals : fetchTasks(uid)

DoFetchTeams == \E uid \in Principals : fetchTeams(uid)

NextTasks ==
    \/ DoUpdateTaskStatus
    \/ DoUpdateTask
    \/ DoFetchTasks
    \/ DoFetchTeams

SpecTasks == InitTasks /\ [][NextTasks]_vars

\* C22: a profile that has a membership in a team gets, whatever its role,
\* the team's row when it selects from teams and each task of the team when
\* it selects from tasks
C22_MemberReadsTeamAndTasks ==
    \A m \in team_members :
        m.user_id \in OwnProfileIds(result.caller)
        => /\ result.op = "teams" => [id |-> m.team_id] \in result.rows
           /\ result.op = "tasks"
                 => \A i \in DOMAIN tasks :
                       tasks[i].team_id = m.team_id => tasks[i] \in result.rows

\* the caller of an update of task id is an admin, the manager of the team
\* of the task or the profile the task is assigned to
MayUpdateTask(uid, id) ==
    \/ get_user_role(uid) = "admin"
    \/ /\ tasks[id].team_id # NULL
       /\ teams[tasks[id].team_id].manager_id \in OwnProfileIds(uid)
    \/ tasks[id].assigned_to \in OwnProfileIds(uid)

-----------------------------------------------------------------------------
(* Responses to feedback *)

\* mutant: the INSERT policy without its test of responder_id
StaffCanCreateResponses_AnyResponder(uid, row) ==
    get_user_role(uid) \in {"admin", "manager", "staff"}

\* policy "Staff can create responses" (FOR INSERT WITH CHECK)
StaffCanCreateResponses(uid, row) ==
    /\ get_user_role(uid) \in {"admin", "manager", "staff"}
    /\ row.responder_id \in OwnProfileIds(uid)

\* feedback_responses has row level security enabled and no policy FOR
\* UPDATE, FOR DELETE or FOR ALL: no row passes for any principal
ResponseWritePolicies(uid, row) == FALSE

\* NOT NULL and REFERENCES constraints of feedback_responses
ResponseConstraints(row) ==
    /\ row.feedback_id \in Indexes
    /\ row.responder_id \in ProfileIds
    /\ row.message # NullText

\* INSERT INTO feedback_responses (feedback_id, responder_id, message,
\* is_internal) without RETURNING
InsertResponse(uid, request) ==
    LET row == [id |-> Len(feedback_responses) + 1] @@ request
        ok == StaffCanCreateResponses(uid, row) /\ ResponseConstraints(row)
    IN  /\ feedback_responses' = IF ok THEN Append(feedback_responses, row)
                                       ELSE feedback_responses
        /\ result' = Response("response", uid, ok, IF ok THEN 1 ELSE 0, request, {})
        /\ UNCHANGED <<profiles, feedback, subscribers, input, clientVars, teamVars,
                       tasks, viewVars>>

\* FeedbackList.submitResponse for the selected feedback: nothing without a
\* signed-in user, an error without a profile, else the insert
submitResponse(uid, feedbackId, message) ==
    /\ uid # Anon
    /\ IF uid \in Users /\ profiles[uid].exists /\ ProfileSelectPolicies(uid, uid)
       THEN InsertResponse(uid, [feedback_id |-> feedbackId,
                                 responder_id |-> profiles[uid].id,
                                 message |-> message, is_internal |-> FALSE])
       ELSE /\ result' = Response("response", uid, FALSE, 0, NoRequest, {})
            /\ UNCHANGED <<profiles, feedback, subscribers, input, clientVars,
                           teamVars, workVars, viewVars>>

\* UPDATE feedback_responses SET <patch> WHERE id = <id>
UpdateResponse(uid, id, patch) ==
    LET hit == ResponseWritePolicies(uid, feedback_responses[id]) IN
    /\ id \in DOMAIN feedback_responses
    /\ feedback_responses' =
          IF hit THEN [feedback_responses EXCEPT ![id] = ApplyPatch(@, patch)]
                 ELSE feedback_responses
    /\ result' = Response("responseupdate", uid, TRUE, IF hit THEN 1 ELSE 0,
                          [id |-> id, patch |-> patch], {})
    /\ UNCHANGED <<profiles, feedback, subscribers, input, clientVars, teamVars,
                   tasks, viewVars>>

\* DELETE FROM feedback_responses WHERE id = <id>
DeleteResponse(uid, id) ==
    LET hit == ResponseWritePolicies(uid, feedback_responses[id]) IN
    /\ id \in DOMAIN feedback_responses
    /\ feedback_responses' =
          IF hit THEN SubSeq(feedback_responses, 1, id - 1)
                      \o SubSeq(feedback_responses, id + 1, Len(feedback_responses))
                 ELSE feedback_responses
    /\ result' = Response("responsedelete", uid, TRUE, IF hit THEN 1 ELSE 0,
                          [id |-> id], {})
    /\ UNCHANGED <<profiles, feedback, subscribers, input, clientVars, teamVars,
                   tasks, viewVars>>

-----------------------------------------------------------------------------
(* Specification of the responses: one stored feedback row, the account u1  *)
(* without a profile or with a profile of any role, the admin u2            *)

\* how many responses are stored
MaxResponses == 2

\* INSERT statements on feedback_responses sent to the store directly
ResponseRequests ==
    {[feedback_id |-> 1, responder_id |-> p, message |-> m, is_internal |-> b] :
        p \in {"p1", "p2"}, m \in {SomeMessage, NullText}, b \in BOOLEAN}

ResponsePatches == {[message |-> OtherMessage], [responder_id |-> "p1"]}

InitResponses ==
    /\ \/ profiles = SeededProfiles
       \/ \E r \in Roles : profiles = [BothProfiles EXCEPT !["u1"].role = r]
    /\ feedback = SeededFeedback
    /\ subscribers = [u \in Users |-> NoSubscriber]
    /\ input = NoInput
    /\ result = NoResult
    /\ ClientIdle
    /\ TeamIdle

DoSubmitResponse ==
    \E uid \in Principals, id \in Indexes :
        /\ Len(feedback_responses) < MaxResponses
        /\ submitResponse(uid, id, SomeMessage)

DoInsertResponse ==
    \E uid \in Principals, request \in ResponseRequests :
        /\ Len(feedback_responses) < MaxResponses
        /\ InsertResponse(uid, request)

DoUpdateResponse ==
    \E uid \in Principals, id \in DOMAIN feedback_responses, patch \in ResponsePatches :
        UpdateResponse(uid, id, patch)

DoDeleteResponse ==
    \E uid \in Principals, id \in DOMAIN feedback_responses : DeleteResponse(uid, id)

NextResponses ==
    \/ DoSubmitResponse
    \/ DoInsertResponse
    \/ DoUpdateResponse
    \/ DoDeleteResponse

SpecResponses == InitResponses /\ [][NextResponses]_vars

\* C24: no step changes or removes a stored response, and a step that stores
\* a response stores one row, for a caller whose role is admin, manager or
\* staff, with the caller's own profile id as responder_id
C24_ResponsesAppendOnly ==
    [][/\ \A i \in DOMAIN feedback_responses :
             /\ i \in DOMAIN feedback_responses'
             /\ feedback_responses'[i] = feedback_responses[i]
       /\ feedback_responses' # feedback_responses
          => /\ Len(feedback_responses') = Len(feedback_responses) + 1
             /\ get_user_role(result'.caller) \in {"admin", "manager", "staff"}
             /\ feedback_responses'[Len(feedback_responses')].responder_id
                   \in OwnProfileIds(result'.caller)]_vars

\* a staff profile has stored a response, and the admin's update or delete
\* of it changed nothing
C24_Witness ==
    /\ \E i \in DOMAIN feedback_responses :
          /\ feedback_responses[i].responder_id = "p1"
          /\ profiles["u1"].role = "staff"
    /\ result.op \in {"responseupdate", "responsedelete"}
    /\ get_user_role(result.caller) = "admin"
    /\ result.count = 0

-----------------------------------------------------------------------------
(* Claims about the e-mail of addTeamMember *)

\* C25: when the insert of the membership or of the invitation has succeeded
\* and send-team-invitation then fails, the step leaves the team tables as
\* they are, the call ends with the toast of the successful insert and the
\* dialog is closed
C25_MailFailureKeepsWrite ==
    [][\A s \in Sessions :
          adding[s].pc = "mail" /\ adding'[s].pc = "done" /\ adding'[s].mail = "failed"
          => /\ team_members' = team_members
             /\ team_invitations' = team_invitations
             /\ adding'[s].toast = adding[s].toast
             /\ adding'[s].toast \in {"Member added", "Invitation sent"}
             /\ ~adding'[s].dialogOpen]_vars

\* an invitation was stored, the e-mail for it failed, the call has ended and
\* the invitation is in the table
C25_Witness ==
    \E s \in Sessions :
        /\ adding[s].pc = "done" /\ adding[s].mail = "failed"
        /\ adding[s].toast = "Invitation sent"
        /\ Len(team_invitations) = 1

-----------------------------------------------------------------------------
(* The edge function analyze-feedback *)

\* what the call of the chat completions service can end with: no answer
\* (fetch throws), a status that is not ok, an answer without choices, a
\* content that is no JSON text, the JSON text null, a JSON object that has
\* the fields asked for
LlmOutcomes == {"unreachable", "not_ok", "no_choices", "not_json", "json_null",
                "json_insights"}

Ratings == 1..5

\* array.filter(pred).length over the rows fetched
CountRows(rows, column, values) ==
    Cardinality({i \in DOMAIN rows : rows[i][column] \in values})

RECURSIVE SumRatings(_, _)
SumRatings(rows, i) == IF i > Len(rows) THEN 0 ELSE rows[i].rating + SumRatings(rows, i + 1)

\* Math.round of the ratio a / b of two naturals, b positive
RoundDiv(a, b) == (2 * a + b) \div (2 * b)

\* "Calculate basic statistics"; averageRating is kept as the sum and the
\* count it is the quotient of
StatsOf(rows) ==
    [totalFeedback |-> Len(rows),
     averageRating |-> [sum |-> SumRatings(rows, 1), count |-> Len(rows)],
     ratingDistribution |-> [r \in Ratings |-> CountRows(rows, "rating", {r})],
     pendingCount |-> CountRows(rows, "status", {"pending"}),
     resolvedCount |-> CountRows(rows, "status", {"resolved"})]

\* Object.entries(ratingDistribution).reduce((a, b) => d[a] > d[b] ? a : b)
RECURSIVE MostCommonFrom(_, _, _)
MostCommonFrom(d, a, b) ==
    IF b > 5 THEN a ELSE MostCommonFrom(d, IF d[a] > d[b] THEN a ELSE b, b + 1)

\* "Provide basic analytics when AI is unavailable": the numbers the texts of
\* the fallback insights are built from
FallbackInsights(rows) ==
    LET stats == StatsOf(rows)
        n == Len(rows)
        positiveCount == CountRows(rows, "rating", {r \in 0..5 : r >= 4})
        negativeCount == CountRows(rows, "rating", {r \in 0..5 : r <= 2})
        neutralCount == n - positiveCount - negativeCount
    IN  [summary |-> [total |-> n, averageTenths |-> RoundDiv(10 * stats.averageRating.sum, n),
                      pending |-> stats.pendingCount],
         sentiment |-> [positive |-> RoundDiv(positiveCount * 100, n),
                        neutral |-> RoundDiv(neutralCount * 100, n),
                        negative |-> RoundDiv(negativeCount * 100, n)],
         trends |-> <<positiveCount, negativeCount, stats.pendingCount,
                      MostCommonFrom(stats.ratingDistribution, 1, 2)>>,
         recommendations |-> <<stats.pendingCount > 0,
                               stats.averageRating.sum < 3 * n,
                               negativeCount > 0>>,
         keyTopics |-> "fixed"]

\* the insights of the service, when its answer is a JSON object with the
\* fields asked for
LlmInsights ==
    [summary |-> "llm", sentiment |-> "llm", trends |-> "llm",
     recommendations |-> "llm", keyTopics |-> "llm"]

\* the body of the answer when no row is in the time range
NoDataInsights ==
    [summary |-> "none", trends |-> << >>, recommendations |-> "start",
     sentiment |-> [positive |-> 0, neutral |-> 0, negative |-> 0],
     keyTopics |-> << >>]

\* the body the handler answers with: { error } with status 500 when the
\* key is not configured; else the rows are read with the service role key
\* (no row level security, no look at the caller), and the insights are
\* those of the service, the fallback when the call or the parsing throws,
\* and nothing when the content parses to null ({...null, stats})
AnalyzeBody(keyConfigured, llm) ==
    IF ~keyConfigured THEN [success |-> FALSE, error |-> "OPENAI_API_KEY is not configured"]
    ELSE IF Len(feedback) = 0 THEN [success |-> TRUE, insights |-> NoDataInsights]
    ELSE LET stats == [stats |-> StatsOf(feedback)] IN
         [success |-> TRUE,
          insights |-> IF llm = "json_insights" THEN LlmInsights @@ stats
                       ELSE IF llm = "json_null" THEN stats
                       ELSE FallbackInsights(feedback) @@ stats]

\* serve handler of analyze-feedback, called by uid
analyze_feedback(uid, keyConfigured, llm) ==
    LET body == AnalyzeBody(keyConfigured, llm) IN
    /\ result' = Response("analyze", uid, body.success, Len(feedback),
                          [key |-> keyConfigured, llm |-> llm], {body})
    /\ UNCHANGED <<profiles, feedback, subscribers, input, clientVars, teamVars,
                   workVars, viewVars>>

-----------------------------------------------------------------------------
(* Specification of the analysis: stored feedback of several ratings, of    *)
(* either status and branch, the account u1 a manager of branch b2 or a     *)
(* plain user, every outcome of the service                                 *)

\* how many feedback rows are stored
MaxAnalyzed == 2

AnalyzedRows ==
    {[subject |-> SomeSubject, message |-> SomeMessage, rating |-> r,
      status |-> st, branch_id |-> b] :
        r \in {1, 3, 4}, st \in {"pending", "resolved"}, b \in Branches}

InitAnalyze ==
    /\ \E r \in {"manager", "user"} :
          profiles = [BothProfiles EXCEPT !["u1"].role = r, !["u1"].branch_id = "b2"]
    /\ \E n \in 0..MaxAnalyzed : \E requests \in [1..n -> AnalyzedRows] :
          feedback = [i \in 1..n |-> StoredRow(i, requests[i])]
    /\ subscribers = [u \in Users |-> NoSubscriber]
    /\ input = NoInput
    /\ result = NoResult
    /\ ClientIdle
    /\ TeamIdle

DoAnalyzeFeedback ==
    \E uid \in Principals, keyConfigured \in BOOLEAN, llm \in LlmOutcomes :
        /\ keyConfigured \/ llm = "unreachable"
        /\ analyze_feedback(uid, keyConfigured, llm)

NextAnalyze == DoAnalyzeFeedback \/ DoFetchFeedback

SpecAnalyze == InitAnalyze /\ [][NextAnalyze]_vars

\* the body of the last answer of analyze-feedback
AnalyzeAnswer == CHOOSE body \in result.rows : TRUE

\* C26: every answer of analyze-feedback over a non-empty feedback set for
\* which the service was not available (no key, no answer, an error status)
\* or gave an unusable answer (no choices, no JSON, no object) has success =
\* true and the locally computed summary, sentiment, trends, recommendations
\* and keyTopics together with the stats
C26_FallbackWhenLlmFails ==
    /\ result.op = "analyze"
    /\ Len(feedback) > 0
    /\ ~result.req.key \/ result.req.llm # "json_insights"
    => /\ AnalyzeAnswer.success
       /\ AnalyzeAnswer.insights = FallbackInsights(feedback) @@ [stats |-> StatsOf(feedback)]

\* the stored rows the SELECT policies of feedback let the principal read
ReadableBy(uid) == SelectSeq(feedback, LAMBDA row : FeedbackSelectPolicies(uid, row))

\* C30: the answer of analyze-feedback to a caller is the answer over the
\* rows that caller may read: its stats are the stats of those rows, and
\* the answer for no data when the caller may read no row
C30_InsightsOnlyFromReadableRows ==
    result.op = "analyze" /\ result.req.key
    => IF Len(ReadableBy(result.caller)) = 0
       THEN AnalyzeAnswer.insights = NoDataInsights
       ELSE AnalyzeAnswer.insights.stats = StatsOf(ReadableBy(result.caller))

-----------------------------------------------------------------------------
(* Claims about the profiles *)

\* C27: a step changes the role or the branch_id of an existing profile only
\* if the request is made by a principal whose role is admin
C27_RoleChangesOnlyByAdmin ==
    [][\A t \in Users :
          /\ profiles[t].exists
          /\ \/ profiles'[t].role # profiles[t].role
             \/ profiles'[t].branch_id # profiles[t].branch_id
          => get_user_role(result'.caller) = "admin"]_vars

-----------------------------------------------------------------------------
(* FeedbackList sessions: every rendered list holds the rows it fetched    *)
(* last and offers, for each row, the status actions of the status it      *)
(* shows                                                                    *)

\* the status actions in the menu of a list item, by item.status
StatusActions(status) ==
    IF status = "pending" THEN {"in_progress", "resolved"}
    ELSE IF status = "in_progress" THEN {"resolved"}
    ELSE {}

\* FeedbackList is rendered for the signed-in user: the effect on [user]
\* calls fetchFeedback, which stores the answer with setFeedback
mountFeedbackList(s, uid) ==
    /\ ~lists[s].mounted
    /\ lists' = [lists EXCEPT ![s] = [user |-> uid, mounted |-> TRUE,
                                      feedback |-> NewestRows(SelectFeedback(uid))]]
    /\ UNCHANGED <<profiles, feedback, subscribers, input, result,
                   clientVars, teamVars, workVars>>

\* a click on a status action of item id in the list of session s:
\* updateFeedbackStatus and, when the update reported no error, the
\* fetchFeedback that follows it
clickStatusAction(s, id, newStatus) ==
    \E uid \in Users :
        /\ lists[s].mounted
        /\ uid = lists[s].user
        /\ \E item \in lists[s].feedback :
              item.id = id /\ newStatus \in StatusActions(item.status)
        /\ updateFeedbackStatus(uid, id, newStatus)
        /\ lists' = [lists EXCEPT ![s].feedback =
                        IF result'.ok THEN NewestRows(SelectFeedback(uid))' ELSE @]

InitLists ==
    /\ \E role \in {"manager", "staff"} :
          profiles = [BothProfiles EXCEPT !["u1"].role = role]
    /\ \E assignee \in {NULL, "p1"} :
          feedback = <<[SeededFeedback[1] EXCEPT !.assigned_to = assignee]>>
    /\ subscribers = [u \in Users |-> NoSubscriber]
    /\ input = NoInput
    /\ result = NoResult
    /\ ClientIdle
    /\ TeamIdle

DoMountFeedbackList == \E s \in Sessions, uid \in Users : mountFeedbackList(s, uid)

DoClickStatusAction ==
    \E s \in Sessions, id \in Indexes, newStatus \in Statuses :
        clickStatusAction(s, id, newStatus)

NextLists ==
    \/ DoMountFeedbackList
    \/ DoClickStatusAction

SpecLists == InitLists /\ [][NextLists]_vars

\* the order pending, in_progress, resolved of the statuses
StatusRank(status) ==
    CASE status = "pending" -> 0
      [] status = "in_progress" -> 1
      [] status = "resolved" -> 2
      [] OTHER -> 3

\* C28: whatever the interleaving of the updateFeedbackStatus calls of the
\* FeedbackList sessions, each offering the status actions of the status in
\* its own list, no step moves the status of a feedback row backwards in the
\* order pending, in_progress, resolved, and a row that is or becomes
\* resolved has a non-null resolved_at after the step
C28_StatusNeverMovesBackwards ==
    [][\A i \in Indexes :
          /\ StatusRank(feedback'[i].status) >= StatusRank(feedback[i].status)
          /\ feedback[i].status = "resolved" \/ feedback'[i].status = "resolved"
             => feedback'[i].resolved_at # NULL]_vars

-----------------------------------------------------------------------------
(* SubscriptionProvider under changes of the signed-in user: the effect on  *)
(* [user, session] starts a checkSubscription call at every change, and    *)
(* the calls answer in any order                                            *)

\* the checkSubscription calls one tab starts
MaxChecks == 2

\* the effect on [user, session] after the session of tab t has become that
\* of u (NULL: signed out): checkSubscription up to its await
checkSubscriptionCall(t, u) ==
    /\ ~tabs[t].open \/ u # NULL \/ tabs[t].user # NULL
    /\ u # NULL => profiles[u].exists /\ tabs[t].started < MaxChecks
    /\ tabs' = [tabs EXCEPT ![t] =
          IF u = NULL
          THEN [@ EXCEPT !.open = TRUE, !.user = NULL,
                         !.subscribed = FALSE, !.subscriptionTier = NULL,
                         !.loading = FALSE]
          ELSE [@ EXCEPT !.open = TRUE, !.user = u,
                         !.loading = TRUE,
                         !.started = @ + 1,
                         !.calls = @ \cup {[id |-> tabs[t].started + 1, user |-> u]}]]
    /\ UNCHANGED <<profiles, feedback, subscribers, input, result,
                   events, invoked, teamVars, workVars, viewVars>>

\* checkSubscription after its await: the answer of check-subscription for
\* the account the call was made for, or an error, then finally
checkSubscriptionReturn(t, call, error) ==
    LET data == check_subscription(call.user) IN
    /\ call \in tabs[t].calls
    /\ tabs' = [tabs EXCEPT ![t].subscribed = IF error THEN FALSE ELSE data.subscribed,
                            ![t].subscriptionTier =
                                IF error THEN NULL ELSE data.subscription_tier,
                            ![t].loading = FALSE,
                            ![t].calls = @ \ {call}]
    /\ UNCHANGED <<profiles, feedback, subscribers, input, result,
                   events, invoked, teamVars, workVars, viewVars>>

\* the account u1 is subscribed, the account u2 is not
InitSession ==
    /\ profiles = BothProfiles
    /\ feedback = << >>
    /\ \E tier \in {"basic", "pro"} :
          subscribers = [u \in Users |->
              IF u = "u1"
              THEN ApplyPatch([NoSubscriber EXCEPT !.exists = TRUE, !.user_id = u,
                                                   !.email = auth_email(u)],
                              [subscribed |-> TRUE, subscription_tier |-> tier])
              ELSE NoSubscriber]
    /\ input = NoInput
    /\ result = NoResult
    /\ ClientIdle
    /\ TeamIdle

DoCheckSubscriptionCall ==
    \E t \in Tabs, u \in Users \cup {NULL} : checkSubscriptionCall(t, u)

DoCheckSubscriptionReturn ==
    \E t \in Tabs, error \in BOOLEAN :
        \E call \in tabs[t].calls : checkSubscriptionReturn(t, call, error)

NextSession ==
    \/ DoCheckSubscriptionCall
    \/ DoCheckSubscriptionReturn

SpecSession == InitSession /\ [][NextSession]_vars

\* what a finished check leaves for the account: the answer of
\* check-subscription, or not subscribed after an error
CheckResults(u) ==
    {<<check_subscription(u).subscribed, check_subscription(u).subscription_tier>>,
     <<FALSE, NULL>>}

\* C29: in a tab where no checkSubscription call is in flight the
\* subscription state matches the current session: without a user
\* subscribed = false and subscriptionTier = null, with a user the state is
\* a result of the check for that user, and loading is false
C29_SubscriptionMatchesSession ==
    \A t \in Tabs :
        tabs[t].open /\ tabs[t].calls = {} =>
            /\ ~tabs[t].loading
            /\ IF tabs[t].user = NULL
               THEN ~tabs[t].subscribed /\ tabs[t].subscriptionTier = NULL
               ELSE <<tabs[t].subscribed, tabs[t].subscriptionTier>>
                        \in CheckResults(tabs[t].user)

====
